---- MODULE Spec2Model ----
(***************************************************************************)
(* Timeline composition and render pipeline of the video editor:           *)
(*   - the URL resolution layer (utils/url-converter.ts),                  *)
(*   - the placement of new video overlays (video-overlay-panel.tsx),      *)
(*   - the keyframe extraction and its cache (hooks/use-keyframes.tsx),    *)
(*   - the render job and its progress endpoint (lambda/progress route),   *)
(*   - the media proxy (video-proxy route).                                *)
(* A JavaScript string is a sequence of one-character strings.             *)
(***************************************************************************)
EXTENDS Integers, Sequences, FiniteSets, TLC

(***************************************************************************)
(* Bounds of the model.                                                    *)
(***************************************************************************)
\* longest variable tail of an enumerated URL
MaxTail == 3
\* most overlays in a list handed to processOverlaysForLambda/ForLocal
MaxOverlays == 2
\* most overlays on the timeline
MaxClips == 3
\* most timeline rows shown
MaxRows == 2
\* frame plans: longest overlay, and widest container in units of 150 px
MaxPlanDuration == 35
MaxWidthUnits == 32
\* last value of the clock that gives overlays their ids
MaxClock == 2
\* placement as a function: latest start, longest duration and most overlays
\* of an enumerated overlay set
MaxFrom == 4
MaxDuration == 2
MaxPlaced == 2
\* keyframes: last value of the clock, in freshness windows, and most calls
\* of performExtraction
MaxNow == 1
MaxRuns == 2

(***************************************************************************)
(* The state.                                                              *)
(***************************************************************************)
VARIABLES
  urlIn,    \* the string the conversions start from
  urlOps,   \* the conversions applied so far, in order
  urlOut    \* their results, in order: [threw, val]
urlVars == <<urlIn, urlOps, urlOut>>

VARIABLES
  ovHeap,    \* the objects
  ovInput,   \* the overlays argument: references
  ovResult,  \* the returned array: references
  ovOp       \* "none" before the call, then "lambda" or "local"
ovVars == <<ovHeap, ovInput, ovResult, ovOp>>

VARIABLES
  overlays,           \* the overlay collection
  durationInFrames,   \* the composition's duration
  clock,              \* Date.now()
  addResult           \* how the last addOverlay ended
tlVars == <<overlays, durationInFrames, clock, addResult>>

VARIABLES
  plOverlays,  \* existingOverlays
  plRows,      \* availableRows
  plDuration,  \* durationInFrames
  plResult     \* the results of the calls made, in order
plVars == <<plOverlays, plRows, plDuration, plResult>>

VARIABLES
  kfCache,      \* the keyframe cache: overlay id -> entry
  kfOverlay,    \* overlayMeta: [id, durationInFrames]
  kfPrevious,   \* previousOverlayRef.current: <<>> or <<overlayMeta>>
  kfNow,        \* Date.now(), in steps of TickMs
  kfRuns,       \* calls of performExtraction so far
  isLoading,    \* the hook's state
  frames,       \* the hook's state: FrameInfo records
  kfPc,         \* where the call in flight stands
  kfCall,       \* its locals
  kfOutcome     \* how the last call ended, "running" while one is in flight
kfVars ==
  <<kfCache, kfOverlay, kfPrevious, kfNow, kfRuns, isLoading, frames, kfPc, kfCall,
    kfOutcome>>

VARIABLES
  kfContainer,  \* the widths containerRef.current.clientWidth takes
  kfDecodable   \* the frame offsets extractVideoFrame can draw a frame at
kfEnv == <<kfContainer, kfDecodable>>

VARIABLES
  rdJob,        \* the RenderJob: [state, progress, resultUrl, resultSizeBytes, errorMessage]
  rdExecutor,   \* the status of the render at the executor
  rdResponse,   \* the ProgressResponse of the last poll: <<>> or <<response>>
  rdLastQuery   \* how getRenderProgress ended in the last poll
rdVars == <<rdJob, rdExecutor, rdResponse, rdLastQuery>>

VARIABLES
  pxRequest,    \* the query of the last proxy request: <<>> or <<query>>
  pxResponse,   \* the status of its response: <<>> or <<status>>
  pxFetched,    \* the URLs fetched upstream so far
  pxBefore,     \* the URLs fetched upstream before the last request came
  pxPc          \* "idle", or "fetching" during the upstream fetch
pxVars == <<pxRequest, pxResponse, pxFetched, pxBefore, pxPc>>

VARIABLES
  fnDuration,   \* the overlay's durationInFrames of a frame plan
  fnWidth,      \* the container's clientWidth of a frame plan
  fnNumbers     \* the planned frameNumbers: <<>> before the plan is made
fnVars == <<fnDuration, fnWidth, fnNumbers>>

VARIABLES
  kfInFlight    \* the calls of performExtraction of one overlay, in the order they began
cxVars == <<kfInFlight>>

vars ==
  <<urlVars, ovVars, tlVars, plVars, kfVars, kfEnv, rdVars, pxVars, fnVars, cxVars>>

\* what the actions of one part leave alone; the hook writes neither to its
\* container nor to the video
UrlFrame == UNCHANGED <<ovVars, tlVars, plVars, kfVars, kfEnv, rdVars, pxVars, fnVars,
  cxVars>>
OvFrame == UNCHANGED <<urlVars, tlVars, plVars, kfVars, kfEnv, rdVars, pxVars, fnVars,
  cxVars>>
TlFrame == UNCHANGED <<urlVars, ovVars, plVars, kfVars, kfEnv, rdVars, pxVars, fnVars,
  cxVars>>
PlFrame == UNCHANGED <<urlVars, ovVars, tlVars, kfVars, kfEnv, rdVars, pxVars, fnVars,
  cxVars>>
KfFrame == UNCHANGED <<urlVars, ovVars, tlVars, plVars, kfEnv, rdVars, pxVars, fnVars,
  cxVars>>
RdFrame == UNCHANGED <<urlVars, ovVars, tlVars, plVars, kfVars, kfEnv, pxVars, fnVars,
  cxVars>>
FnFrame ==
  UNCHANGED <<urlVars, ovVars, tlVars, plVars, kfVars, kfEnv, rdVars, pxVars, cxVars>>
PxFrame == UNCHANGED <<urlVars, ovVars, tlVars, plVars, kfVars, kfEnv, rdVars, fnVars,
  cxVars>>

(***************************************************************************)
(* Strings.                                                                *)
(***************************************************************************)
\* String.prototype.startsWith
StartsWith(s, p) ==
  /\ Len(p) <= Len(s)
  /\ \A i \in 1..Len(p) : s[i] = p[i]

\* String.prototype.includes
Includes(s, p) ==
  \E k \in 0..(Len(s) - Len(p)) : \A i \in 1..Len(p) : s[k + i] = p[i]

\* index of the first occurrence of the character c in s, 0 when there is none
IndexOf(s, c) ==
  IF \E i \in 1..Len(s) : s[i] = c
  THEN CHOOSE i \in 1..Len(s) : s[i] = c /\ \A j \in 1..(i - 1) : s[j] # c
  ELSE 0

\* the literals of url-converter.ts
StrHttp == <<"h", "t", "t", "p">>
StrProxyPath ==
  <<"/", "a", "p", "i", "/", "v", "i", "d", "e", "o", "-", "p", "r", "o", "x", "y">>
StrProxyPattern == StrProxyPath \o <<"?", "u", "r", "l", "=">>
StrLocalBase ==
  <<"h", "t", "t", "p", ":", "/", "/", "l", "o", "c", "a", "l", "h", "o", "s", "t",
    ":", "3", "0", "0", "0">>
StrUrl == <<"u", "r", "l">>

(***************************************************************************)
(* Character codes: the printable ASCII characters, code 32 to 126.        *)
(***************************************************************************)
AsciiPrintable ==
  <<" ", "!", "\"", "#", "$", "%", "&", "'", "(", ")", "*", "+", ",", "-", ".", "/",
    "0", "1", "2", "3", "4", "5", "6", "7", "8", "9", ":", ";", "<", "=", ">", "?",
    "@", "A", "B", "C", "D", "E", "F", "G", "H", "I", "J", "K", "L", "M", "N", "O",
    "P", "Q", "R", "S", "T", "U", "V", "W", "X", "Y", "Z", "[", "\\", "]", "^", "_",
    "<96>", "a", "b", "c", "d", "e", "f", "g", "h", "i", "j", "k", "l", "m", "n", "o",
    "p", "q", "r", "s", "t", "u", "v", "w", "x", "y", "z", "{", "|", "}", "~">>

HexDigits ==
  <<"0", "1", "2", "3", "4", "5", "6", "7", "8", "9", "A", "B", "C", "D", "E", "F">>
HexLower == <<"a", "b", "c", "d", "e", "f">>

IsHex(c) ==
  \/ \E i \in 1..16 : HexDigits[i] = c
  \/ \E i \in 1..6 : HexLower[i] = c

HexVal(c) ==
  IF \E i \in 1..16 : HexDigits[i] = c
  THEN (CHOOSE i \in 1..16 : HexDigits[i] = c) - 1
  ELSE (CHOOSE i \in 1..6 : HexLower[i] = c) + 9

\* the character of a byte: printable ASCII as itself, any other byte as a
\* one-element name of its code
CharOfCode(n) ==
  IF n >= 32 /\ n <= 126 THEN AsciiPrintable[n - 31] ELSE "<" \o ToString(n) \o ">"

CodeOfChar(c) == 31 + (CHOOSE i \in 1..95 : AsciiPrintable[i] = c)

\* the characters encodeURIComponent leaves alone: letters, digits and the
\* marks - _ . ! ~ * ( ) and the apostrophe
IsUnreserved(c) ==
  LET n == CodeOfChar(c)
  IN  \/ (n >= 48 /\ n <= 57)
      \/ (n >= 65 /\ n <= 90)
      \/ (n >= 97 /\ n <= 122)
      \/ c \in {"-", "_", ".", "!", "~", "*", "'", "(", ")"}

RECURSIVE EncodeURIComponent(_)
\* encodeURIComponent on ASCII text: every other character becomes %XX
EncodeURIComponent(s) ==
  IF s = <<>> THEN <<>>
  ELSE LET c == Head(s)
           n == CodeOfChar(c)
       IN  (IF IsUnreserved(c) THEN <<c>>
            ELSE <<"%", HexDigits[(n \div 16) + 1], HexDigits[(n % 16) + 1]>>)
           \o EncodeURIComponent(Tail(s))

RECURSIVE DecodeURIComponent(_)
\* decodeURIComponent: [ok, val]; ok is FALSE where the call throws URIError
\* (a % not followed by two hex digits, or an escape of a byte >= 128 that
\* starts no well-formed UTF-8 sequence; such a byte never stands alone)
DecodeURIComponent(s) ==
  IF s = <<>> THEN [ok |-> TRUE, val |-> <<>>]
  ELSE IF Head(s) # "%"
  THEN LET r == DecodeURIComponent(Tail(s))
       IN  [ok |-> r.ok, val |-> <<Head(s)>> \o r.val]
  ELSE IF Len(s) < 3 \/ ~IsHex(s[2]) \/ ~IsHex(s[3])
  THEN [ok |-> FALSE, val |-> <<>>]
  ELSE LET n == 16 * HexVal(s[2]) + HexVal(s[3])
           r == DecodeURIComponent(SubSeq(s, 4, Len(s)))
       IN  IF n >= 128 THEN [ok |-> FALSE, val |-> <<>>]
           ELSE [ok |-> r.ok, val |-> <<CharOfCode(n)>> \o r.val]

RECURSIVE FormDecode(_)
\* the decoding URLSearchParams applies to a name or a value: + is a space,
\* %XX is the byte, a malformed % stays as it is; it never throws
FormDecode(s) ==
  IF s = <<>> THEN <<>>
  ELSE IF Head(s) = "+" THEN <<" ">> \o FormDecode(Tail(s))
  ELSE IF Head(s) = "%" /\ Len(s) >= 3 /\ IsHex(s[2]) /\ IsHex(s[3])
  THEN <<CharOfCode(16 * HexVal(s[2]) + HexVal(s[3]))>>
       \o FormDecode(SubSeq(s, 4, Len(s)))
  ELSE <<Head(s)>> \o FormDecode(Tail(s))

(***************************************************************************)
(* new URL(...) and URLSearchParams, as far as convertUrlForLambda uses    *)
(* them.  The enumerated URLs hold no white space, so the parser strips    *)
(* and escapes nothing in the query.                                       *)
(***************************************************************************)
IsAlpha(c) ==
  LET n == CodeOfChar(c) IN (n >= 65 /\ n <= 90) \/ (n >= 97 /\ n <= 122)

IsSchemeChar(c) ==
  LET n == CodeOfChar(c)
  IN  IsAlpha(c) \/ (n >= 48 /\ n <= 57) \/ c \in {"+", "-", "."}

\* the end of s before its first character out of stops (Len(s) when none)
RECURSIVE SpanUntil(_, _)
SpanUntil(s, stops) ==
  IF s = <<>> \/ Head(s) \in stops THEN 0 ELSE 1 + SpanUntil(Tail(s), stops)

\* new URL(s) without a base: [ok, query]; ok is FALSE where the constructor
\* throws TypeError: no scheme, or an http(s) URL with an empty or ill-formed
\* host.  query is the text between the first ? and the fragment.
ParseUrl(s) ==
  LET colon  == IndexOf(s, ":")
      scheme == SubSeq(s, 1, colon - 1)
      hasScheme ==
        /\ colon > 1
        /\ IsAlpha(s[1])
        /\ \A i \in 1..Len(scheme) : IsSchemeChar(scheme[i])
      rest   == SubSeq(s, colon + 1, Len(s))
      special == scheme \in {StrHttp, StrHttp \o <<"s">>}
      slashes == IF Len(rest) >= 2 /\ rest[1] = "/" /\ rest[2] = "/" THEN 2
                 ELSE IF Len(rest) >= 1 /\ rest[1] = "/" THEN 1 ELSE 0
      afterSl == SubSeq(rest, slashes + 1, Len(rest))
      hostLen == SpanUntil(afterSl, {"/", "?", "#"})
      host   == SubSeq(afterSl, 1, hostLen)
      hostOk == /\ hostLen > 0
                /\ \A i \in 1..hostLen : IsSchemeChar(host[i]) \/ host[i] = ":"
      noFrag == SubSeq(s, 1, SpanUntil(s, {"#"}))
      qmark  == IndexOf(noFrag, "?")
      query  == IF qmark = 0 THEN <<>> ELSE SubSeq(noFrag, qmark + 1, Len(noFrag))
  IN  IF ~hasScheme THEN [ok |-> FALSE, query |-> <<>>]
      ELSE IF special /\ ~hostOk THEN [ok |-> FALSE, query |-> <<>>]
      ELSE [ok |-> TRUE, query |-> query]

RECURSIVE SearchParamsGet(_, _)
\* urlObj.searchParams.get(name) on a query: [found, val]; found is FALSE for
\* null.  The pairs are split at &, each at its first =, then form-decoded.
SearchParamsGet(query, name) ==
  IF query = <<>> THEN [found |-> FALSE, val |-> <<>>]
  ELSE LET n    == SpanUntil(query, {"&"})
           pair == SubSeq(query, 1, n)
           more == SubSeq(query, n + 2, Len(query))
           eq   == IndexOf(pair, "=")
           key  == IF eq = 0 THEN pair ELSE SubSeq(pair, 1, eq - 1)
           raw  == IF eq = 0 THEN <<>> ELSE SubSeq(pair, eq + 1, Len(pair))
       IN  IF pair # <<>> /\ FormDecode(key) = name
           THEN [found |-> TRUE, val |-> FormDecode(raw)]
           ELSE SearchParamsGet(more, name)

(***************************************************************************)
(* utils/url-converter.ts                                                  *)
(***************************************************************************)
\* the try block of convertUrlForLambda: it returns the decoded URL, throws,
\* or runs to its end (the url parameter is null or empty)
ConvertUrlForLambdaTry(url) ==
  LET fullUrl == IF StartsWith(url, <<"/">>) THEN StrLocalBase \o url ELSE url
      urlObj  == ParseUrl(fullUrl)
      encodedUrl == SearchParamsGet(urlObj.query, StrUrl)
      originalUrl == DecodeURIComponent(encodedUrl.val)
  IN  IF ~urlObj.ok THEN [kind |-> "throw", val |-> <<>>]
      ELSE IF ~encodedUrl.found \/ encodedUrl.val = <<>>
      THEN [kind |-> "end", val |-> <<>>]
      ELSE IF ~originalUrl.ok THEN [kind |-> "throw", val |-> <<>>]
      ELSE [kind |-> "return", val |-> originalUrl.val]

\* convertUrlForLambda without its catch: what the try block throws escapes
ConvertUrlForLambdaNoCatch(url) ==
  LET t == IF Includes(url, StrProxyPattern) THEN ConvertUrlForLambdaTry(url)
           ELSE [kind |-> "end", val |-> <<>>]
  IN  IF t.kind = "return" THEN [threw |-> FALSE, val |-> t.val]
      ELSE IF t.kind = "throw" THEN [threw |-> TRUE, val |-> <<>>]
      ELSE [threw |-> FALSE, val |-> url]

\* convertUrlForLambda: [threw, val].  The catch logs the error and the
\* function goes on to return url.
ConvertUrlForLambda(url) ==
  LET t == IF Includes(url, StrProxyPattern) THEN ConvertUrlForLambdaTry(url)
           ELSE [kind |-> "end", val |-> <<>>]
  IN  IF t.kind = "return" THEN [threw |-> FALSE, val |-> t.val]
      ELSE [threw |-> FALSE, val |-> url]

\* convertUrlForLocal that wraps every URL starting with http, proxied or not
ConvertUrlForLocalAlways(url) ==
  IF StartsWith(url, StrHttp)
  THEN StrProxyPattern \o EncodeURIComponent(url)
  ELSE url

\* convertUrlForLocal
ConvertUrlForLocal(url) ==
  IF StartsWith(url, StrHttp) /\ ~Includes(url, StrProxyPath)
  THEN StrProxyPattern \o EncodeURIComponent(url)
  ELSE url

(***************************************************************************)
(* The URLs the conversions are applied to: a head and a short tail.       *)
(***************************************************************************)
TailChars == {"a", "%", "2", "0", "+", "&", "#", "?"}
Tails == UNION {[1..n -> TailChars] : n \in 0..MaxTail}

StrOriginHead == <<"h", "t", "t", "p", "s", ":", "/", "/", "h", "/">>
UrlHeads ==
  { <<>>,
    <<"/">>,
    StrOriginHead,
    StrProxyPattern,
    SubSeq(StrOriginHead, 1, 9) \o StrProxyPattern,
    <<"a">> \o StrProxyPattern,
    StrProxyPattern \o EncodeURIComponent(StrProxyPattern) }
UrlInputs == {h \o t : h \in UrlHeads, t \in Tails}

UrlCurrent == IF urlOut = <<>> THEN urlIn ELSE urlOut[Len(urlOut)].val

UrlInit ==
  /\ urlIn \in UrlInputs
  /\ urlOps = <<>>
  /\ urlOut = <<>>

\* a call of convertUrlForLocal on the current string
CallConvertUrlForLocal ==
  /\ urlOps \in {<<>>, <<"local">>}
  /\ urlOps' = Append(urlOps, "local")
  /\ urlOut' = Append(urlOut, [threw |-> FALSE, val |-> ConvertUrlForLocal(UrlCurrent)])
  /\ UNCHANGED urlIn
  /\ UrlFrame

\* a call of convertUrlForLambda on the current string
CallConvertUrlForLambda ==
  /\ urlOps \in {<<>>, <<"local">>}
  /\ urlOps' = Append(urlOps, "lambda")
  /\ urlOut' = Append(urlOut, ConvertUrlForLambda(UrlCurrent))
  /\ UNCHANGED urlIn
  /\ UrlFrame

UrlNext == CallConvertUrlForLocal \/ CallConvertUrlForLambda

\* an origin URL: absolute http(s), not proxied
IsOriginUrl(u) == StartsWith(u, StrHttp) /\ ~Includes(u, StrProxyPath)

\* C3: for every origin URL u, convertUrlForLambda(convertUrlForLocal(u)) = u
C3_RoundTrip ==
  (urlOps = <<"local", "lambda">> /\ IsOriginUrl(urlIn)) => urlOut[2].val = urlIn

\* the string a conversion call number i was applied to
UrlArg(i) == IF i = 1 THEN urlIn ELSE urlOut[i - 1].val

\* a relative URL, as this program tells one: it starts with a slash
IsRelativeUrl(u) == StartsWith(u, <<"/">>)

FailsOpen(u) ==
  \/ ~Includes(u, StrProxyPattern)
  \/ ConvertUrlForLambdaTry(u).kind # "return"

\* C5: convertUrlForLambda never throws, and returns its input unchanged when
\* the input is no proxy URL or its inner value is missing or malformed
C5_LambdaNeverThrows ==
  \A i \in 1..Len(urlOps) :
    urlOps[i] = "lambda" =>
      /\ ~urlOut[i].threw
      /\ FailsOpen(UrlArg(i)) => urlOut[i].val = UrlArg(i)

\* C5 witness: a call whose try block threw, and the input came back
C5_Witness ==
  /\ urlOps = <<"lambda">>
  /\ Includes(urlIn, StrProxyPattern)
  /\ ConvertUrlForLambdaTry(urlIn).kind = "throw"
  /\ urlOut[1] = [threw |-> FALSE, val |-> urlIn]

(***************************************************************************)
(* processOverlaysForLambda and processOverlaysForLocal.  Overlays and     *)
(* their styles are objects of a heap (a sequence, an object's reference   *)
(* is its index), so that a write to an input object is a different        *)
(* outcome from a write to a copy.  An object is                           *)
(*   [data, urls, styles]: its data fields, its URL-bearing properties     *)
(* (a value is [def, s]: def is FALSE for undefined) and the reference of  *)
(* its styles object (0 for none).                                         *)
(***************************************************************************)
UrlProperties == {"src", "content", "file", "audio_url", "video_url"}
Undefined == [def |-> FALSE, s |-> <<>>]
Str(s) == [def |-> TRUE, s |-> s]

\* processedOverlay[prop] && typeof processedOverlay[prop] === 'string'
IsTruthyString(v) == v.def /\ v.s # <<>>

\* the urlProperties.forEach of processOverlaysForLambda on one object
ConvertPropsForLambda(obj) ==
  [obj EXCEPT !.urls =
     [p \in UrlProperties |->
        IF IsTruthyString(obj.urls[p])
        THEN Str(ConvertUrlForLambda(obj.urls[p].s).val)
        ELSE obj.urls[p]]]

\* the styles branch of the callback: processedStyles is a converted copy of
\* the styles object, and the processed overlay refers to the copy
WithProcessedStyles(heap, processedOverlay) ==
  IF processedOverlay.styles # 0
  THEN [heap |-> heap \o <<ConvertPropsForLambda(heap[processedOverlay.styles]),
                           [processedOverlay EXCEPT !.styles = Len(heap) + 1]>>,
        ref  |-> Len(heap) + 2]
  ELSE [heap |-> Append(heap, processedOverlay), ref |-> Len(heap) + 1]

\* the styles branch with processedStyles aliased to the input styles object
\* instead of a copy of it
WithStylesInPlace(heap, processedOverlay) ==
  IF processedOverlay.styles # 0
  THEN [heap |-> Append([heap EXCEPT ![processedOverlay.styles] =
                           ConvertPropsForLambda(heap[processedOverlay.styles])],
                        processedOverlay),
        ref  |-> Len(heap) + 1]
  ELSE [heap |-> Append(heap, processedOverlay), ref |-> Len(heap) + 1]

\* processOverlaysForLambda's callback writing through to the input styles
ProcessOverlayForLambdaInPlace(heap, r) ==
  WithStylesInPlace(heap, ConvertPropsForLambda(heap[r]))

\* the callback of processOverlaysForLambda on the overlay at r: the heap
\* with the new objects, and the reference of the processed overlay
ProcessOverlayForLambda(heap, r) ==
  WithProcessedStyles(heap, ConvertPropsForLambda(heap[r]))

\* the callback of processOverlaysForLocal: src and content only, and the
\* styles object is shared with the input
ProcessOverlayForLocal(heap, r) ==
  LET o == heap[r]
      conv(v) == IF IsTruthyString(v) THEN Str(ConvertUrlForLocal(v.s)) ELSE v
      processedOverlay ==
        [o EXCEPT !.urls = [p \in UrlProperties |->
                              IF p \in {"src", "content"} THEN conv(o.urls[p])
                              ELSE o.urls[p]]]
  IN  [heap |-> Append(heap, processedOverlay), ref |-> Len(heap) + 1]

\* the result array with the first callback's result in front
Prepend(one, rest) == [heap |-> rest.heap, result |-> <<one.ref>> \o rest.result]

RECURSIVE MapOverlays(_, _, _)
\* the callbacks on the remaining overlays run on the heap the first one left
MapRest(one, refs, lambda) == Prepend(one, MapOverlays(one.heap, Tail(refs), lambda))

\* overlays.map(callback): [heap, result]
MapOverlays(heap, refs, lambda) ==
  IF refs = <<>> THEN [heap |-> heap, result |-> <<>>]
  ELSE MapRest(IF lambda THEN ProcessOverlayForLambda(heap, Head(refs))
               ELSE ProcessOverlayForLocal(heap, Head(refs)), refs, lambda)

ProcessOverlaysForLambda(heap, refs) == MapOverlays(heap, refs, TRUE)
ProcessOverlaysForLocal(heap, refs) == MapOverlays(heap, refs, FALSE)

(***************************************************************************)
(* The overlays handed to the two functions: each carries one URL in one   *)
(* property, at its top level or in its styles object.                     *)
(***************************************************************************)
StrOriginA == StrOriginHead \o <<"a">>
StrOriginPct == StrOriginHead \o <<"a", "%">>
\* an origin URL, the proxy URL the editor makes of it, and the proxy URL it
\* makes of an origin URL that holds a bare percent sign
UrlSamples ==
  {StrOriginA, ConvertUrlForLocal(StrOriginA), ConvertUrlForLocal(StrOriginPct)}

NoUrls == [p \in UrlProperties |-> Undefined]
OverlayShapes ==
  {[prop |-> p, url |-> u, inStyles |-> b] :
     p \in UrlProperties, u \in UrlSamples, b \in BOOLEAN}

RECURSIVE BuildHeap(_)
\* the input heap of a list of shapes: an overlay after its styles object
BuildHeap(shapes) ==
  IF shapes = <<>> THEN [heap |-> <<>>, refs |-> <<>>]
  ELSE LET n    == Len(shapes)
           prev == BuildHeap(SubSeq(shapes, 1, n - 1))
           sh   == shapes[n]
           one  == [NoUrls EXCEPT ![sh.prop] = Str(sh.url)]
           h1   == IF sh.inStyles
                   THEN Append(prev.heap, [data |-> "opacity", urls |-> one, styles |-> 0])
                   ELSE prev.heap
           ov   == IF sh.inStyles
                   THEN [data |-> "video", urls |-> NoUrls, styles |-> Len(h1)]
                   ELSE [data |-> "video", urls |-> one, styles |-> 0]
       IN  [heap |-> Append(h1, ov), refs |-> Append(prev.refs, Len(h1) + 1)]

OvInit ==
  /\ \E n \in 0..MaxOverlays : \E shapes \in [1..n -> OverlayShapes] :
       /\ ovHeap = BuildHeap(shapes).heap
       /\ ovInput = BuildHeap(shapes).refs
  /\ ovResult = <<>>
  /\ ovOp = "none"

\* the heap after the call, and the array the call returned
OvReturn(r) == ovHeap' = r.heap /\ ovResult' = r.result

CallProcessOverlaysForLambda ==
  /\ ovOp = "none"
  /\ OvReturn(ProcessOverlaysForLambda(ovHeap, ovInput))
  /\ ovOp' = "lambda"
  /\ UNCHANGED ovInput
  /\ OvFrame

CallProcessOverlaysForLocal ==
  /\ ovOp = "none"
  /\ OvReturn(ProcessOverlaysForLocal(ovHeap, ovInput))
  /\ ovOp' = "local"
  /\ UNCHANGED ovInput
  /\ OvFrame

OvNext == CallProcessOverlaysForLambda \/ CallProcessOverlaysForLocal

\* the URL-bearing properties of the object at r hold no proxy URL
NoProxyUrlIn(heap, r) ==
  \A p \in UrlProperties :
    heap[r].urls[p].def => ~Includes(heap[r].urls[p].s, StrProxyPattern)

\* C6: after processOverlaysForLambda no URL-bearing field of a returned
\* overlay, at its top level or in its styles, matches the proxy pattern
C6_NoProxyUrlLeft ==
  ovOp = "lambda" =>
    \A i \in 1..Len(ovResult) :
      /\ NoProxyUrlIn(ovHeap, ovResult[i])
      /\ ovHeap[ovResult[i]].styles # 0 =>
           NoProxyUrlIn(ovHeap, ovHeap[ovResult[i]].styles)

\* the objects at a and b agree on every field that bears no URL, and so do
\* their styles objects
SameButUrls(heap, a, b) ==
  /\ heap[a].data = heap[b].data
  /\ (heap[a].styles = 0) = (heap[b].styles = 0)
  /\ heap[a].styles # 0 =>
       /\ heap[heap[a].styles].data = heap[heap[b].styles].data
       /\ heap[heap[a].styles].styles = heap[heap[b].styles].styles

\* C7: a call of processOverlaysForLambda or processOverlaysForLocal leaves
\* every input object as it was, and its result has the length and order of
\* the input and the input's fields other than the URL-bearing ones
C7_InputNotMutated ==
  [][(ovOp = "none" /\ ovOp' # "none") =>
       /\ \A r \in 1..Len(ovHeap) : ovHeap'[r] = ovHeap[r]
       /\ ovInput' = ovInput
       /\ Len(ovResult') = Len(ovInput)
       /\ \A i \in 1..Len(ovInput) :
            /\ ovResult'[i] > Len(ovHeap)
            /\ SameButUrls(ovHeap', ovResult'[i], ovInput[i])]_vars

\* C7 witness: a call converted a URL held in a styles object, in the copy
C7_Witness ==
  /\ ovOp = "lambda"
  /\ Len(ovInput) = MaxOverlays
  /\ \E i \in 1..Len(ovInput) :
       /\ ovHeap[ovInput[i]].styles # 0
       /\ ovHeap[ovHeap[ovResult[i]].styles].urls
            # ovHeap[ovHeap[ovInput[i]].styles].urls

\* every URL-bearing property of the object at b is the one of the object at
\* a after convertUrlForLocal
PassedThroughLocal(heap, a, b) ==
  \A p \in UrlProperties :
    IsTruthyString(heap[a].urls[p]) =>
      heap[b].urls[p] = Str(ConvertUrlForLocal(heap[a].urls[p].s))

\* C27: processOverlaysForLocal passes every URL-bearing field that
\* processOverlaysForLambda rewrites (src, content, file, audio_url,
\* video_url, at the top level and in styles) through convertUrlForLocal.
C27_SameFieldsCovered ==
  ovOp = "local" =>
    \A i \in 1..Len(ovResult) :
      /\ PassedThroughLocal(ovHeap, ovInput[i], ovResult[i])
      /\ ovHeap[ovInput[i]].styles # 0 =>
           PassedThroughLocal(ovHeap, ovHeap[ovInput[i]].styles,
                              ovHeap[ovResult[i]].styles)

(***************************************************************************)
(* The timeline: the overlay collection of the editor context and the      *)
(* placement of new overlays.  An overlay is                               *)
(*   [id, row, from, durationInFrames, placedFor]                          *)
(* where placedFor is the duration its position was computed for.          *)
(***************************************************************************)
Max(a, b) == IF a >= b THEN a ELSE b

\* the overlays of a row, sorted by from ascending
RECURSIVE SortedByFrom(_)
SortedByFrom(ovs) ==
  IF ovs = {} THEN <<>>
  ELSE LET first == CHOOSE o \in ovs : \A q \in ovs : o.from <= q.from
       IN  <<first>> \o SortedByFrom(ovs \ {first})

\* the start of the first gap of width >= d in a sorted row: before the first
\* overlay, between two overlays, or after the last
RECURSIVE FirstGap(_, _, _)
FirstGap(sorted, cursor, d) ==
  IF sorted = <<>> THEN cursor
  ELSE IF Head(sorted).from - cursor >= d THEN cursor
  ELSE FirstGap(Tail(sorted),
                Max(cursor, Head(sorted).from + Head(sorted).durationInFrames), d)

\* findNextAvailablePosition that appends after the last overlay of the row
FindNextAvailablePositionAppend(existingOverlays, availableRows, d) ==
  IF availableRows = 0 THEN [from |-> 0, row |-> availableRows]
  ELSE LET ends == {o.from + o.durationInFrames :
                      o \in {q \in existingOverlays : q.row = 0}}
       IN  [from |-> IF ends = {} THEN 0 ELSE CHOOSE e \in ends : \A x \in ends : e >= x,
            row  |-> 0]

\* findNextAvailablePosition: the rows in ascending order, in each the first
\* gap; a row always ends in a gap, so the first row is taken whenever there
\* is a row, and a new row at from = 0 only when there is none
FindNextAvailablePosition(existingOverlays, availableRows, d) ==
  IF availableRows = 0 THEN [from |-> 0, row |-> availableRows]
  ELSE [from |-> FirstGap(SortedByFrom({o \in existingOverlays : o.row = 0}), 0, d),
        row  |-> 0]

\* addOverlay that stores whatever overlay it is given
AddOverlayUnchecked(ovs, o) == ovs \cup {o}

\* addOverlay: InvalidOverlay, and no change, for a duration <= 0
AddOverlay(ovs, o) == IF o.durationInFrames <= 0 THEN ovs ELSE ovs \cup {o}

\* the outcome of addOverlay
AddOverlayResult(o) == IF o.durationInFrames <= 0 THEN "InvalidOverlay" ELSE "ok"

\* the durationInFrames of a changeOverlay patch
PatchDurations == {0, 150}

\* changeOverlay(id, patch): a partial merge; the position of a changed
\* overlay is no longer one that was computed for it (placedFor 0)
ChangeOverlayById(ovs, id, patch) ==
  {IF o.id = id
   THEN [o EXCEPT !.durationInFrames = patch.durationInFrames, !.placedFor = 0]
   ELSE o : o \in ovs}

\* removeOverlay
RemoveOverlayById(ovs, id) == {o \in ovs : o.id # id}

\* videoData.duration in hundredths of a second; 0 is a missing duration
VideoDurations == {0, 1, 100, 250}
\* the composition's durationInFrames
CompositionDurations == {100, 200, 900}

\* Math.round((videoData.duration || 6.67) * 30)
DurationInFramesOf(c) == IF c = 0 THEN 200 ELSE (6 * c + 10) \div 20

\* handleVideoSelect's newOverlay, placed at the start of the row whatever
\* position was computed
SelectedVideoOverlayAtZero(pos, d, now) ==
  [id |-> now, row |-> pos.row, from |-> 0, durationInFrames |-> d, placedFor |-> d]

\* handleVideoSelect's newOverlay
SelectedVideoOverlay(pos, d, now) ==
  [id |-> now, row |-> pos.row, from |-> pos.from, durationInFrames |-> d,
   placedFor |-> d]

\* handleAddClip's newOverlay: 200 frames, at the position computed for the
\* composition's duration
PexelsClipOverlay(pos, compositionDuration, now) ==
  [id |-> now, row |-> pos.row, from |-> pos.from, durationInFrames |-> 200,
   placedFor |-> compositionDuration]

TlInit ==
  /\ overlays = {}
  /\ durationInFrames \in CompositionDurations
  /\ clock = 0
  /\ addResult = "none"

\* handleVideoSelect(videoData): nothing is added without a video URL
HandleVideoSelect ==
  \E c \in VideoDurations, visibleRows \in 1..MaxRows, hasUrl \in BOOLEAN :
    /\ Cardinality(overlays) < MaxClips
    /\ LET d   == DurationInFramesOf(c)
           pos == FindNextAvailablePosition(overlays, visibleRows, d)
       IN  /\ overlays' = IF hasUrl
                          THEN AddOverlay(overlays, SelectedVideoOverlay(pos, d, clock))
                          ELSE overlays
           /\ addResult' = IF hasUrl
                           THEN AddOverlayResult(SelectedVideoOverlay(pos, d, clock))
                           ELSE addResult
    /\ UNCHANGED <<durationInFrames, clock>>
    /\ TlFrame

\* handleAddClip(video)
HandleAddClip ==
  \E visibleRows \in 1..MaxRows :
    /\ Cardinality(overlays) < MaxClips
    /\ LET pos == FindNextAvailablePosition(overlays, visibleRows, durationInFrames)
       IN  /\ overlays' =
                AddOverlay(overlays, PexelsClipOverlay(pos, durationInFrames, clock))
           /\ addResult' =
                AddOverlayResult(PexelsClipOverlay(pos, durationInFrames, clock))
    /\ UNCHANGED <<durationInFrames, clock>>
    /\ TlFrame

\* removeOverlay(id) of an overlay of the collection
RemoveOverlay ==
  \E o \in overlays :
    /\ overlays' = RemoveOverlayById(overlays, o.id)
    /\ UNCHANGED <<durationInFrames, clock, addResult>>
    /\ TlFrame

\* handleUpdateOverlay: changeOverlay(id, patch) of an overlay of the collection
ChangeOverlay ==
  \E o \in overlays, n \in PatchDurations :
    /\ overlays' = ChangeOverlayById(overlays, o.id, [durationInFrames |-> n])
    /\ UNCHANGED <<durationInFrames, clock, addResult>>
    /\ TlFrame

\* time passes
Tick ==
  /\ clock < MaxClock
  /\ clock' = clock + 1
  /\ UNCHANGED <<overlays, durationInFrames, addResult>>
  /\ TlFrame

TlNext == HandleVideoSelect \/ HandleAddClip \/ RemoveOverlay \/ Tick

\* the collection with changeOverlay as well
CollectionNext ==
  \/ HandleVideoSelect \/ HandleAddClip
  \/ RemoveOverlay \/ ChangeOverlay \/ Tick

\* two overlays of one row whose intervals [from, from+durationInFrames) meet
Overlap(a, b) ==
  /\ a.row = b.row
  /\ a.from < b.from + b.durationInFrames
  /\ b.from < a.from + a.durationInFrames

\* C1: when every overlay was added at the position computed for its own
\* duration d > 0, no two overlays of a row overlap
C1_PlacementNonOverlap ==
  (\A o \in overlays : o.placedFor = o.durationInFrames /\ o.durationInFrames > 0)
    => \A a, b \in overlays : a # b => ~Overlap(a, b)

\* C1 witness: a full row of overlays, one of them placed into the gap a
\* removal left between two others
C1_Witness ==
  /\ Cardinality(overlays) = MaxClips
  /\ \A o \in overlays : o.placedFor = o.durationInFrames
  /\ \E a, b, c \in overlays :
       /\ a.from + a.durationInFrames = b.from
       /\ b.from + b.durationInFrames < c.from
       /\ b.id > c.id

\* C28: every overlay the video panel adds is stored with the
\* durationInFrames its position was computed for, and so overlaps no other
\* overlay of its row, whatever the duration of the composition.
C28_StoredAsPlaced ==
  /\ \A o \in overlays : o.placedFor = o.durationInFrames
  /\ \A a, b \in overlays : a # b => ~Overlap(a, b)

\* every overlay of a collection has a duration of at least one frame
AllPositive(ovs) == \A o \in ovs : o.durationInFrames > 0

\* a changeOverlay whose patch holds a durationInFrames <= 0
NonPositivePatchStep ==
  \E o \in overlays, n \in {p \in PatchDurations : p <= 0} :
    overlays' = ChangeOverlayById(overlays, o.id, [durationInFrames |-> n])

C22_UniqueIds == \A a, b \in overlays : a # b => a.id # b.id

(***************************************************************************)
(* findNextAvailablePosition as a function of its arguments.               *)
(***************************************************************************)
PlacedOverlays ==
  {[id |-> 0, row |-> r, from |-> f, durationInFrames |-> n, placedFor |-> n] :
     r \in 0..(MaxRows - 1), f \in 0..MaxFrom, n \in 1..MaxDuration}

PlInit ==
  /\ plOverlays \in UNION {{{pick[i] : i \in 1..n} : pick \in [1..n -> PlacedOverlays]} :
                           n \in 0..MaxPlaced}
  /\ plRows \in 0..MaxRows
  /\ plDuration \in 1..MaxDuration
  /\ plResult = <<>>

CallFindNextAvailablePosition ==
  /\ Len(plResult) < 2
  /\ plResult' =
       Append(plResult, FindNextAvailablePosition(plOverlays, plRows, plDuration))
  /\ UNCHANGED <<plOverlays, plRows, plDuration>>
  /\ PlFrame

PlNext == CallFindNextAvailablePosition

\* [s, s+d) is free of every overlay of the row
FreeGap(ovs, row, s, d) ==
  \A o \in ovs :
    o.row = row => ~(s < o.from + o.durationInFrames /\ o.from < s + d)

\* a row has a free gap of width d: it starts no later than the end of the
\* last overlay
RowHasGap(ovs, row, d) ==
  \E s \in 0..(MaxFrom + MaxDuration) : FreeGap(ovs, row, s, d)

MAX_ERRORS == 10
MAX_RETRIES == 5
EXTRACTION_BATCH_SIZE == 3
FreshnessWindowMs == 300000
\* one step of the clock, in milliseconds
TickMs == FreshnessWindowMs

StrDataImage == <<"d", "a", "t", "a", ":", "i", "m", "a", "g", "e">>
\* canvas.toDataURL of the frame at an offset
FramePayload(frameNumber) ==
  StrDataImage \o <<"/", "j", "p", "e", "g", ";">> \o <<ToString(frameNumber)>>
\* what extractVideoFrame can resolve with for an offset: the frame, the
\* empty string of its failure paths, the data URL of an empty canvas
FrameResults(frameNumber) ==
  {FramePayload(frameNumber), <<>>, <<"d", "a", "t", "a", ":", ",">>}

\* the test of line 396 without its startsWith
IsFrameDataUrlTruthy(dataUrl) == dataUrl # <<>>

\* dataUrl && dataUrl.startsWith("data:image")
IsFrameDataUrl(dataUrl) == dataUrl # <<>> /\ StartsWith(dataUrl, StrDataImage)

\* containerRef.current.clientWidth (0: no container) and zoomScale
ContainerWidths == {600, 750}
ZoomScales == {1}
\* the overlay's durationInFrames
KfDurations == {3, 100}
KfOverlayIds == {1}

Min(a, b) == IF a <= b THEN a ELSE b
CeilDiv(a, b) == (a + b - 1) \div b

\* calculateFrameCount
CalculateFrameCount(containerWidth, zoomScale) ==
  IF containerWidth = 0 THEN 10
  ELSE Min(Max(CeilDiv(containerWidth, 150 * zoomScale), 5), 30)

\* frameNumbers without the clamp to the last frame
FrameNumbersUnclamped(frameCount, duration) ==
  [i \in 1..frameCount |-> (i - 1) * Max(1, duration \div frameCount)]

\* frameNumbers: Math.min(Math.floor(i * frameInterval), durationInFrames - 1)
FrameNumbers(frameCount, duration) ==
  LET frameInterval == Max(1, duration \div frameCount)
  IN  [i \in 1..frameCount |-> Min((i - 1) * frameInterval, duration - 1)]

\* the frame plan as a function of the duration and the container width
PlanWidths == {0} \cup {150 * k : k \in 1..MaxWidthUnits}

FnInit ==
  /\ fnDuration \in 1..MaxPlanDuration
  /\ fnWidth \in PlanWidths
  /\ fnNumbers = <<>>

\* frameCount and frameNumbers of performExtraction, at zoomScale 1
PlanFrames ==
  /\ fnNumbers = <<>>
  /\ fnNumbers' = FrameNumbers(CalculateFrameCount(fnWidth, 1), fnDuration)
  /\ UNCHANGED <<fnDuration, fnWidth>>
  /\ FnFrame

FnNext == PlanFrames

\* the interval of the plan: max(1, floor(durationInFrames / frameCount))
PlanInterval == Max(1, fnDuration \div Len(fnNumbers))

\* C24, as stated: for every durationInFrames >= 1 and frame count of 5..30
\* the planned offsets are i * interval, i in 0..fc-1, with interval =
\* max(1, floor(durationInFrames / fc)), and each is below durationInFrames.
C24_EvenlySpaced ==
  fnNumbers # <<>> =>
    /\ Len(fnNumbers) \in 5..30
    /\ \A i \in 1..Len(fnNumbers) :
         /\ fnNumbers[i] = (i - 1) * PlanInterval
         /\ fnNumbers[i] < fnDuration

\* C24, amended: the planned offsets are min(i * interval, durationInFrames
\* - 1): each is below durationInFrames, and they are the evenly spaced
\* i * interval whenever durationInFrames >= fc.
C24_EvenlySpacedClamped ==
  fnNumbers # <<>> =>
    /\ Len(fnNumbers) \in 5..30
    /\ \A i \in 1..Len(fnNumbers) :
         /\ fnNumbers[i] < fnDuration
         /\ fnNumbers[i] >= 0
         /\ (i - 1) * PlanInterval < fnDuration =>
              fnNumbers[i] = (i - 1) * PlanInterval
         /\ (i - 1) * PlanInterval >= fnDuration =>
              fnNumbers[i] = fnDuration - 1
    /\ fnDuration >= Len(fnNumbers) =>
         \A i \in 1..Len(fnNumbers) : fnNumbers[i] = (i - 1) * PlanInterval

\* a plan of 30 frames for an overlay of 35: evenly spaced, none clamped
C24_Witness ==
  /\ Len(fnNumbers) = 30 /\ fnDuration > Len(fnNumbers)
  /\ fnNumbers[30] = 29 * PlanInterval

\* extractedFrames.length >= frameCount / 2, a weaker threshold
HasEnoughFramesHalf(n, frameCount) == n >= CeilDiv(frameCount, 2)

\* extractedFrames.length >= Math.ceil(frameCount * 0.7); the double product
\* rounds up to ceil(7 * frameCount / 10) for every frameCount of 5..30
HasEnoughFrames(n, frameCount) == n >= CeilDiv(7 * frameCount, 10)

\* the cache check without its test of lastUpdated
IsCacheHitAnyAge(cache, id, duration, now) ==
  /\ id \in DOMAIN cache
  /\ Len(cache[id].frames) > 0
  /\ \A i \in 1..Len(cache[id].frames) : StartsWith(cache[id].frames[i], StrDataImage)
  /\ cache[id].durationInFrames = duration

\* the cache check of lines 197-204
IsCacheHit(cache, id, duration, now) ==
  /\ id \in DOMAIN cache
  /\ Len(cache[id].frames) > 0
  /\ \A i \in 1..Len(cache[id].frames) : StartsWith(cache[id].frames[i], StrDataImage)
  /\ cache[id].durationInFrames = duration
  /\ (now - cache[id].lastUpdated) * TickMs < FreshnessWindowMs

\* updateKeyframes(overlayId, entry): the entry of the id is replaced
UpdateKeyframes(cache, id, entry) ==
  [k \in DOMAIN cache \cup {id} |-> IF k = id THEN entry ELSE cache[k]]

SeqMap(Op(_), s) == [i \in 1..Len(s) |-> Op(s[i])]
DataUrlOf(f) == f.dataUrl
FrameNumberOf(f) == f.frameNumber

\* the entry written at line 464 from extractedFrames
CacheEntryOf(extractedFrames, duration, now) ==
  [frames |-> SeqMap(DataUrlOf, extractedFrames),
   previewFrames |-> SeqMap(FrameNumberOf, extractedFrames),
   durationInFrames |-> duration,
   lastUpdated |-> now]

NoCall ==
  [duration |-> 0, frameCount |-> 0, frameNumbers |-> <<>>, extractedFrames |-> <<>>,
   extractionErrors |-> 0, i |-> 0, batch |-> <<>>, probe |-> "none",
   dimensions |-> <<>>]

\* how the metadata load of the temporary video can end: loadedmetadata with
\* videoWidth and videoHeight, an error event, or neither within 30 s
MetadataOutcomes ==
  {[event |-> "loadedmetadata", width |-> 1920, height |-> 1080],
   [event |-> "loadedmetadata", width |-> 0, height |-> 0],
   [event |-> "loadedmetadata", width |-> 1920, height |-> 0],
   [event |-> "error", width |-> 0, height |-> 0],
   [event |-> "timeout", width |-> 0, height |-> 0]}

\* the dimensions assumed after an error event
DefaultDimensions == [width |-> 1280, height |-> 720]

\* the dimension discovery, lines 248 to 288: the promise resolves with the
\* reported dimensions or, on an error event, with the default; it rejects
\* on the timeout; a zero width or height throws
DiscoverDimensions(outcome) ==
  IF outcome.event = "timeout" THEN [threw |-> TRUE, dimensions |-> DefaultDimensions]
  ELSE IF outcome.event = "error"
  THEN [threw |-> FALSE, dimensions |-> DefaultDimensions]
  ELSE IF outcome.width = 0 \/ outcome.height = 0
  THEN [threw |-> TRUE, dimensions |-> DefaultDimensions]
  ELSE [threw |-> FALSE,
        dimensions |-> [width |-> outcome.width, height |-> outcome.height]]

\* how the HEAD request of testVideoUrlAccessibility can end: a response
\* with response.ok, a response without it, a rejected fetch
FetchOutcomes == {"ok", "notOk", "networkError"}

\* testVideoUrlAccessibility that takes any response for access
TestVideoUrlAccessibilityAnyResponse(outcome) == outcome # "networkError"

\* testVideoUrlAccessibility: response.ok, and false from the catch
TestVideoUrlAccessibility(outcome) == outcome = "ok"

RECURSIVE Pow(_, _)
\* Math.pow(b, n) for a natural n
Pow(b, n) == IF n <= 0 THEN 1 ELSE b * Pow(b, n - 1)

\* one millisecond in the unit of the delays: 1.5^n is a multiple of
\* 1 / 2^MAX_RETRIES for every retryCount n the loop reaches
Ms == Pow(2, MAX_RETRIES)

\* Math.min(1000 * Math.pow(1.5, retryCount), 5000)
RetryDelay(retryCount) ==
  Min(1000 * Pow(3, retryCount) * Pow(2, MAX_RETRIES - retryCount), 5000 * Ms)

\* a loop that goes on while retryCount <= MAX_RETRIES
RetriesLeftOneMore(retryCount) == retryCount <= MAX_RETRIES

\* while (retryCount < MAX_RETRIES), and the test before the wait
RetriesLeft(retryCount) == retryCount < MAX_RETRIES

\* a batch of every offset that is left
NewBatchOfTheRest(frameNumbers, i) ==
  [k \in 1..(Len(frameNumbers) - i) |->
     [frameNumber |-> frameNumbers[i + k], retryCount |-> 0, delay |-> 0,
      state |-> "running"]]

\* the promises of the batch that starts at index i (0-based) of frameNumbers
NewBatch(frameNumbers, i) ==
  [k \in 1..Min(EXTRACTION_BATCH_SIZE, Len(frameNumbers) - i) |->
     [frameNumber |-> frameNumbers[i + k], retryCount |-> 0, delay |-> 0,
      state |-> "running"]]

\* every frame offset of the overlays: a video that decodes throughout
AllOffsets == UNION {0..(d - 1) : d \in KfDurations}

\* the hook before its first call, and an empty keyframe cache
KfHookInit ==
  /\ kfCache = <<>>
  /\ kfOverlay \in {[id |-> i, durationInFrames |-> d] : i \in KfOverlayIds, d \in KfDurations}
  /\ kfPrevious = <<>>
  /\ kfNow = 0
  /\ kfRuns = 0
  /\ isLoading = FALSE
  /\ frames = <<>>
  /\ kfPc = "idle"
  /\ kfCall = NoCall
  /\ kfOutcome = "none"

\* a timeline row of ordinary width and a video that decodes throughout
KfInit ==
  /\ KfHookInit
  /\ kfContainer = ContainerWidths
  /\ kfDecodable = AllOffsets

\* a wide timeline row, which plans 13 frames, and a damaged video: no
\* offset decodes, or only the first one
WideContainerWidths == {1950}
DamagedVideos == {{}, {0}}
KfCeilingInit ==
  /\ KfHookInit
  /\ kfContainer = WideContainerWidths
  /\ kfDecodable \in DamagedVideos

\* the finally block: setIsLoading(false); the locals are gone
KfFinally ==
  /\ isLoading' = FALSE
  /\ kfPc' = "idle"
  /\ kfCall' = NoCall

\* the overlay is resized on the timeline
ChangeOverlayDuration ==
  /\ kfPc = "idle"
  /\ \E d \in KfDurations \ {kfOverlay.durationInFrames} :
       kfOverlay' = [kfOverlay EXCEPT !.durationInFrames = d]
  /\ UNCHANGED <<kfOutcome, kfCache, kfPrevious, kfNow, kfRuns, isLoading, frames, kfPc, kfCall>>
  /\ KfFrame

\* the timeline row is unmounted and mounted again: a new hook instance, the
\* cache of the keyframe context stays
Remount ==
  /\ kfPc = "idle"
  /\ kfPrevious # <<>>
  /\ kfPrevious' = <<>>
  /\ isLoading' = FALSE
  /\ frames' = <<>>
  /\ UNCHANGED <<kfOutcome, kfCache, kfOverlay, kfNow, kfRuns, kfPc, kfCall>>
  /\ KfFrame

\* time passes
KfTick ==
  /\ kfPc = "idle"
  /\ kfNow < MaxNow
  /\ kfNow' = kfNow + 1
  /\ UNCHANGED <<kfOutcome, kfCache, kfOverlay, kfPrevious, kfRuns, isLoading, frames, kfPc, kfCall>>
  /\ KfFrame

\* performExtraction returns at line 181: nothing changed since the last call
StartNoReextract ==
  /\ kfPc = "idle" /\ kfRuns < MaxRuns
  /\ kfPrevious = <<kfOverlay>>
  /\ kfRuns' = kfRuns + 1
  /\ kfOutcome' = "unchanged"
  /\ UNCHANGED <<kfCache, kfOverlay, kfPrevious, kfNow, isLoading, frames, kfPc, kfCall>>
  /\ KfFrame

\* performExtraction finds the cache entry valid and shows its frames
StartCacheHit ==
  /\ kfPc = "idle" /\ kfRuns < MaxRuns
  /\ kfPrevious # <<kfOverlay>>
  /\ IsCacheHit(kfCache, kfOverlay.id, kfOverlay.durationInFrames, kfNow)
  /\ kfRuns' = kfRuns + 1
  /\ kfPrevious' = <<kfOverlay>>
  /\ frames' = [i \in 1..Len(kfCache[kfOverlay.id].previewFrames) |->
                  [frameNumber |-> kfCache[kfOverlay.id].previewFrames[i],
                   dataUrl |-> kfCache[kfOverlay.id].frames[i]]]
  /\ isLoading' = FALSE
  /\ kfOutcome' = "cached"
  /\ UNCHANGED <<kfCache, kfOverlay, kfNow, kfPc, kfCall>>
  /\ KfFrame

\* performExtraction misses the cache and awaits the accessibility probe
StartProbe ==
  /\ kfPc = "idle" /\ kfRuns < MaxRuns
  /\ kfPrevious # <<kfOverlay>>
  /\ ~IsCacheHit(kfCache, kfOverlay.id, kfOverlay.durationInFrames, kfNow)
  /\ kfRuns' = kfRuns + 1
  /\ kfPrevious' = <<kfOverlay>>
  /\ isLoading' = TRUE
  /\ frames' = <<>>
  /\ kfPc' = "probe"
  /\ kfCall' = [NoCall EXCEPT !.duration = kfOverlay.durationInFrames]
  /\ kfOutcome' = "running"
  /\ UNCHANGED <<kfCache, kfOverlay, kfNow>>
  /\ KfFrame

\* testVideoUrlAccessibility resolves false: return
ProbeFails ==
  /\ kfPc = "probe"
  /\ \E outcome \in FetchOutcomes : ~TestVideoUrlAccessibility(outcome)
  /\ KfFinally
  /\ kfOutcome' = "inaccessible"
  /\ UNCHANGED <<kfCache, kfOverlay, kfPrevious, kfNow, kfRuns, frames>>
  /\ KfFrame

\* testVideoUrlAccessibility resolves true: the dimensions are awaited
ProbeSucceeds ==
  /\ kfPc = "probe"
  /\ \E outcome \in FetchOutcomes :
       /\ TestVideoUrlAccessibility(outcome)
       /\ kfCall' = [kfCall EXCEPT !.probe = outcome]
  /\ kfPc' = "dimensions"
  /\ UNCHANGED <<kfOutcome, kfCache, kfOverlay, kfPrevious, kfNow, kfRuns, isLoading, frames>>
  /\ KfFrame

\* the metadata load times out, or reports a zero width or height: throw
DimensionsFail ==
  /\ kfPc = "dimensions"
  /\ \E outcome \in MetadataOutcomes : DiscoverDimensions(outcome).threw
  /\ KfFinally
  /\ kfOutcome' = "threw"
  /\ UNCHANGED <<kfCache, kfOverlay, kfPrevious, kfNow, kfRuns, frames>>
  /\ KfFrame

\* the dimensions are known, or 1280x720 after an error event: the video
\* load is awaited
DimensionsKnown ==
  /\ kfPc = "dimensions"
  /\ \E outcome \in MetadataOutcomes :
       /\ ~DiscoverDimensions(outcome).threw
       /\ kfCall' =
            [kfCall EXCEPT !.dimensions = <<DiscoverDimensions(outcome).dimensions>>]
  /\ kfPc' = "load"
  /\ UNCHANGED <<kfOutcome, kfCache, kfOverlay, kfPrevious, kfNow, kfRuns, isLoading, frames>>
  /\ KfFrame

\* the video does not load in MAX_LOAD_ATTEMPTS attempts: reject
LoadFails ==
  /\ kfPc = "load"
  /\ KfFinally
  /\ kfOutcome' = "threw"
  /\ UNCHANGED <<kfCache, kfOverlay, kfPrevious, kfNow, kfRuns, frames>>
  /\ KfFrame

\* the video is loaded: the frames are planned and the first batch starts;
\* dimensions, which sized the canvas, is read no more
LoadSucceeds ==
  /\ kfPc = "load"
  /\ \E w \in kfContainer, z \in ZoomScales :
       LET frameCount == CalculateFrameCount(w, z)
           frameNumbers == FrameNumbers(frameCount, kfCall.duration)
       IN  kfCall' = [kfCall EXCEPT !.frameCount = frameCount,
                                    !.frameNumbers = frameNumbers,
                                    !.batch = NewBatch(frameNumbers, 0),
                                    !.dimensions = <<>>]
  /\ kfPc' = "batch"
  /\ UNCHANGED <<kfOutcome, kfCache, kfOverlay, kfPrevious, kfNow, kfRuns, isLoading, frames>>
  /\ KfFrame

\* extractVideoFrame settles for promise k of the batch with a frame: it is
\* pushed to extractedFrames and shown, and the promise returns (its
\* retryCount is gone)
AttemptSucceeds ==
  \E k \in DOMAIN kfCall.batch :
    \E dataUrl \in FrameResults(kfCall.batch[k].frameNumber) :
      /\ kfPc = "batch"
      /\ kfCall.batch[k].state = "running"
      /\ kfCall.batch[k].frameNumber \in kfDecodable
      /\ IsFrameDataUrl(dataUrl)
      /\ LET frameInfo == [frameNumber |-> kfCall.batch[k].frameNumber,
                           dataUrl |-> dataUrl]
             extractedFrames == Append(kfCall.extractedFrames, frameInfo)
         IN  /\ kfCall' = [kfCall EXCEPT !.extractedFrames = extractedFrames,
                                         !.batch[k].retryCount = 0,
                                         !.batch[k].delay = 0,
                                         !.batch[k].state = "ok"]
             /\ frames' = extractedFrames
      /\ UNCHANGED <<kfOutcome, kfCache, kfOverlay, kfPrevious, kfNow, kfRuns, isLoading, kfPc>>
      /\ KfFrame

\* extractVideoFrame settles for promise k with no frame: retry after the
\* backoff, or null after MAX_RETRIES attempts
AttemptFails ==
  \E k \in DOMAIN kfCall.batch :
    \E dataUrl \in FrameResults(kfCall.batch[k].frameNumber) :
      /\ kfPc = "batch"
      /\ kfCall.batch[k].state = "running"
      /\ ~IsFrameDataUrl(dataUrl)
      /\ LET retryCount == kfCall.batch[k].retryCount + 1
         IN  kfCall' = [kfCall EXCEPT
                          !.batch[k].retryCount = retryCount,
                          !.batch[k].delay =
                            IF RetriesLeft(retryCount) THEN RetryDelay(retryCount) ELSE 0,
                          !.batch[k].state =
                            IF RetriesLeft(retryCount) THEN "running" ELSE "null"]
      /\ UNCHANGED <<kfOutcome, kfCache, kfOverlay, kfPrevious, kfNow, kfRuns, isLoading, frames, kfPc>>
      /\ KfFrame

BatchSettled == \A k \in DOMAIN kfCall.batch : kfCall.batch[k].state # "running"
FailedFrames == Cardinality({k \in DOMAIN kfCall.batch : kfCall.batch[k].state = "null"})
\* the loop ends after this batch: the error ceiling, or no offsets left
LoopEnds ==
  \/ (kfCall.extractionErrors + FailedFrames >= MAX_ERRORS
        /\ Len(kfCall.extractedFrames) > 0)
  \/ kfCall.i + EXTRACTION_BATCH_SIZE >= Len(kfCall.frameNumbers)

\* Promise.allSettled resolves and the loop goes on with the next batch
BatchContinues ==
  /\ kfPc = "batch"
  /\ BatchSettled
  /\ ~LoopEnds
  /\ kfCall' = [kfCall EXCEPT
                  !.extractionErrors = kfCall.extractionErrors + FailedFrames,
                  !.i = kfCall.i + EXTRACTION_BATCH_SIZE,
                  !.batch = NewBatch(kfCall.frameNumbers,
                                     kfCall.i + EXTRACTION_BATCH_SIZE)]
  /\ UNCHANGED <<kfOutcome, kfCache, kfOverlay, kfPrevious, kfNow, kfRuns, isLoading, frames, kfPc>>
  /\ KfFrame

\* Promise.allSettled resolves and the loop ends: the cache entry is written
\* when enough frames were extracted, and performExtraction returns
ExtractionEnds ==
  /\ kfPc = "batch"
  /\ BatchSettled
  /\ LoopEnds
  /\ kfCache' =
       IF HasEnoughFrames(Len(kfCall.extractedFrames), kfCall.frameCount)
       THEN UpdateKeyframes(kfCache, kfOverlay.id,
                            CacheEntryOf(kfCall.extractedFrames, kfCall.duration, kfNow))
       ELSE kfCache
  /\ KfFinally
  /\ kfOutcome' =
       IF HasEnoughFrames(Len(kfCall.extractedFrames), kfCall.frameCount)
       THEN "committed" ELSE "discarded"
  /\ UNCHANGED <<kfOverlay, kfPrevious, kfNow, kfRuns, frames>>
  /\ KfFrame

KfNext ==
  \/ ChangeOverlayDuration \/ Remount \/ KfTick
  \/ StartNoReextract \/ StartCacheHit \/ StartProbe
  \/ ProbeFails \/ ProbeSucceeds
  \/ DimensionsFail \/ DimensionsKnown
  \/ LoadFails \/ LoadSucceeds
  \/ AttemptSucceeds \/ AttemptFails
  \/ BatchContinues \/ ExtractionEnds

\* the entry of the cache is well formed: as many frames as offsets, each
\* frame the data:image payload of the offset at its index
WellFormedEntry(entry) ==
  /\ Len(entry.frames) = Len(entry.previewFrames)
  /\ \A i \in 1..Len(entry.frames) :
       /\ entry.frames[i] # <<>>
       /\ StartsWith(entry.frames[i], StrDataImage)
       /\ entry.frames[i] = FramePayload(entry.previewFrames[i])

\* a step leaves every entry as it was or replaces it by the whole entry of
\* the extraction that ends
WholeEntryStep ==
  \A id \in DOMAIN kfCache' :
    \/ (id \in DOMAIN kfCache /\ kfCache'[id] = kfCache[id])
    \/ (/\ kfPc = "batch"
        /\ kfCache'[id] = CacheEntryOf(kfCall.extractedFrames, kfCall.duration, kfNow))

\* C8: in every reachable state every keyframe cache entry has as many
\* frames as previewFrames and every frame is a non-empty payload that starts
\* with data:image, and every step leaves an entry alone or replaces it as a
\* whole
C8_CacheIntegrity ==
  /\ [](\A id \in DOMAIN kfCache : WellFormedEntry(kfCache[id]))
  /\ [][WholeEntryStep]_vars

\* C8 witness: an entry committed by an extraction that lost one of its
\* planned frames, while the next extraction is under way
C8_Witness ==
  /\ kfOverlay.id \in DOMAIN kfCache
  /\ Len(kfCache[kfOverlay.id].frames) = 4
  /\ kfPc = "batch"
  /\ kfCall.extractedFrames # <<>>

\* the extraction that ends in this step had at least 70% of its planned
\* frames
EndsWithEnough ==
  10 * Len(kfCall.extractedFrames) >= 7 * kfCall.frameCount

\* performExtraction returns in this step
InvocationEnds == kfPc # "idle" /\ kfPc' = "idle"

\* C9: an extraction commits a new cache entry if and only if it extracted
\* at least 70% of the planned frames: the entry of the overlay changes only
\* in the step that ends such an extraction, that step writes the entry of
\* the extracted frames, and any other invocation ends with the cache as it
\* was
C9_YieldThreshold ==
  [][/\ (kfCache' # kfCache =>
           kfPc = "batch" /\ InvocationEnds /\ EndsWithEnough)
     /\ (kfPc = "batch" /\ InvocationEnds /\ EndsWithEnough =>
           /\ kfOverlay.id \in DOMAIN kfCache'
           /\ kfCache'[kfOverlay.id] =
                CacheEntryOf(kfCall.extractedFrames, kfCall.duration, kfNow))
     /\ (InvocationEnds /\ ~(kfPc = "batch" /\ EndsWithEnough) =>
           kfCache' = kfCache)]_vars

\* C9 witness: the overlay was resized, its second extraction ended with
\* three of five frames, and the entry of the first extraction is still the
\* one in the cache
C9_Witness ==
  /\ kfPc = "idle"
  /\ kfPrevious = <<kfOverlay>>
  /\ Len(frames) = 3
  /\ kfOverlay.id \in DOMAIN kfCache
  /\ kfCache[kfOverlay.id].durationInFrames # kfOverlay.durationInFrames

\* C10: the previewFrames of every committed cache entry are in ascending
\* frame-offset order
C10_AscendingOrder ==
  \A id \in DOMAIN kfCache :
    \A i, j \in 1..Len(kfCache[id].previewFrames) :
      i < j => kfCache[id].previewFrames[i] <= kfCache[id].previewFrames[j]

\* performExtraction is called and reaches its cache check
ReachesCacheCheck ==
  kfPc = "idle" /\ kfRuns' = kfRuns + 1 /\ kfPrevious # <<kfOverlay>>

\* the overlay has a cache entry of its current duration, of data:image
\* frames, less than 300 seconds old
FreshEntryCached ==
  /\ kfOverlay.id \in DOMAIN kfCache
  /\ kfCache[kfOverlay.id].durationInFrames = kfOverlay.durationInFrames
  /\ \A i \in 1..Len(kfCache[kfOverlay.id].frames) :
       StartsWith(kfCache[kfOverlay.id].frames[i], StrDataImage)
  /\ (kfNow - kfCache[kfOverlay.id].lastUpdated) * TickMs < 300 * 1000

\* C11: a call that finds an entry of the overlay's id and current duration,
\* with intact frames and under 300 seconds old, shows exactly the cached
\* frames paired in order with the cached previewFrames, starts no probe and
\* no extraction and leaves the cache alone; when one of the conditions
\* fails, the cached entry is not returned
C11_CacheHit ==
  [][ReachesCacheCheck =>
       IF FreshEntryCached
       THEN /\ kfOutcome' = "cached"
            /\ Len(frames') = Len(kfCache[kfOverlay.id].previewFrames)
            /\ \A i \in 1..Len(frames') :
                 /\ frames'[i].frameNumber = kfCache[kfOverlay.id].previewFrames[i]
                 /\ frames'[i].dataUrl = kfCache[kfOverlay.id].frames[i]
            /\ kfPc' = "idle"
            /\ kfCache' = kfCache
       ELSE kfOutcome' # "cached" /\ frames' = <<>>]_vars

\* C11 witness: a new hook instance was served from the entry an earlier
\* extraction committed
C11_Witness ==
  /\ kfOutcome = "cached"
  /\ kfRuns = 2
  /\ kfOverlay.id \in DOMAIN kfCache
  /\ Len(frames) = Len(kfCache[kfOverlay.id].frames)
  /\ Len(frames) >= 4

\* C12: when the accessibility probe fails (a response that is not OK, or a
\* network error) the extraction aborts: no stage of the frame extraction is
\* entered without an OK response, and the call that ends at the probe
\* leaves the cache as it was
C12_ProbeFailureAborts ==
  /\ [](kfPc \in {"dimensions", "load", "batch"} => kfCall.probe = "ok")
  /\ [][kfPc = "probe" /\ kfPc' = "idle" =>
          /\ kfCache' = kfCache
          /\ kfCall' = NoCall
          /\ frames' = <<>>
          /\ kfOutcome' = "inaccessible"]_vars

\* C12 witness: the overlay was resized after a committed extraction, the
\* probe of the next call failed, and the committed entry is still there
C12_Witness ==
  /\ kfOutcome = "inaccessible"
  /\ kfPc = "idle"
  /\ frames = <<>>
  /\ kfOverlay.id \in DOMAIN kfCache
  /\ kfCache[kfOverlay.id].durationInFrames # kfOverlay.durationInFrames

\* the promise of a batch is within the retry policy: a fifth failure gives
\* the offset up, and a wait is between 1000 and 5000 ms
WithinRetryPolicy(p) ==
  /\ p.retryCount <= 5
  /\ p.state = "running" => p.retryCount < 5
  /\ p.state = "null" => p.retryCount = 5
  /\ p.delay # 0 => 1000 * Ms <= p.delay /\ p.delay <= 5000 * Ms

\* a step of a batch: a settled offset is not attempted again, an attempt
\* counts once, and a wait is no shorter than the wait before it
RetryStep(p, q) ==
  /\ p.state \in {"ok", "null"} => q = p
  /\ q.retryCount <= p.retryCount + 1
  /\ q.state = "running" /\ p.delay # 0 => q.delay >= p.delay

\* C14: each planned offset is attempted at most 5 times: an offset that
\* succeeded is not attempted again, an offset that failed 5 times is given
\* up and counts as one failure, and the wait before a retry is at least
\* 1000 ms, at most 5000 ms and never shorter than the wait before it
C14_RetryPolicy ==
  /\ [](\A k \in DOMAIN kfCall.batch : WithinRetryPolicy(kfCall.batch[k]))
  /\ [][/\ (kfPc = "batch" /\ kfPc' = "batch" /\ kfCall'.i = kfCall.i =>
             \A k \in DOMAIN kfCall.batch :
               RetryStep(kfCall.batch[k], kfCall'.batch[k]))
         /\ (kfPc = "batch" /\ kfPc' = "batch" /\ kfCall'.i # kfCall.i =>
             kfCall'.extractionErrors = kfCall.extractionErrors +
               Cardinality({k \in DOMAIN kfCall.batch :
                              kfCall.batch[k].retryCount = 5}))]_vars

\* C14 witness: in one batch an offset was extracted, another was given up
\* after its fifth failure, and the third waits 5000 ms for its last attempt
C14_Witness ==
  /\ kfPc = "batch"
  /\ \E a, b, c \in DOMAIN kfCall.batch :
       /\ kfCall.batch[a].state = "ok"
       /\ kfCall.batch[b].state = "null"
       /\ kfCall.batch[c].state = "running"
       /\ kfCall.batch[c].retryCount = 4
       /\ kfCall.batch[c].delay = 5000 * Ms

\* the promises of the batch whose extraction is neither done nor given up
InFlight == {k \in DOMAIN kfCall.batch : kfCall.batch[k].state = "running"}

\* C26: at every moment of an extraction at most 3 frame extractions are in
\* flight, each for an offset of the current batch, and the next batch
\* starts only when every offset of the current one has succeeded or been
\* given up.
C26_BatchBound ==
  /\ [](kfPc = "batch" =>
          /\ Cardinality(InFlight) <= 3
          /\ Len(kfCall.batch) <= 3
          /\ \A k \in DOMAIN kfCall.batch :
               /\ kfCall.i + k <= Len(kfCall.frameNumbers)
               /\ kfCall.batch[k].frameNumber = kfCall.frameNumbers[kfCall.i + k])
  /\ [][kfPc = "batch" /\ kfPc' = "batch" /\ kfCall'.i # kfCall.i =>
          /\ InFlight = {}
          /\ kfCall'.i = kfCall.i + 3]_vars

\* the second batch is in flight, with one offset in its retries
C26_Witness ==
  /\ kfPc = "batch" /\ kfCall.i = 3
  /\ Cardinality(InFlight) = 3
  /\ \E k \in InFlight : kfCall.batch[k].retryCount > 0

\* C25: the extraction leaves the dimension discovery only to go on to the
\* video load, with the reported dimensions or, after any failure of the
\* discovery (error event, timeout, zero width or height), with 1280x720; no
\* failure of the discovery ends the extraction.
C25_DimensionFallback ==
  [][kfPc = "dimensions" /\ kfPc' # "dimensions" =>
       /\ kfPc' = "load"
       /\ kfCall'.dimensions # <<>>]_vars

\* C15: after a call ended without a commit (probe failure, load failure,
\* exception, low yield), the next call for the same overlay, the one
\* previousOverlayRef still holds, performs the extraction steps again
C15_FailureRetryable ==
  [][/\ kfPc = "idle" /\ kfRuns' = kfRuns + 1
     /\ kfOutcome \in {"inaccessible", "threw", "discarded"}
     /\ kfPrevious = <<kfOverlay>>
     => kfPc' = "probe"]_vars

\* the steps of the hook on a video too damaged to fill the cache
KfCeilingNext ==
  \/ ChangeOverlayDuration \/ Remount \/ KfTick
  \/ StartNoReextract \/ StartProbe
  \/ ProbeFails \/ ProbeSucceeds
  \/ DimensionsFail \/ DimensionsKnown
  \/ LoadFails \/ LoadSucceeds
  \/ AttemptSucceeds \/ AttemptFails
  \/ BatchContinues \/ ExtractionEnds

\* C13: once the failed offsets of an extraction have reached 10 when a
\* batch has settled, no further batch is started: the next step is the
\* commit decision, whatever the number of frames extracted
C13_ErrorCeiling ==
  [][kfPc = "batch" /\ BatchSettled
       /\ kfCall.extractionErrors + FailedFrames >= 10
     => kfPc' = "idle"]_vars

(***************************************************************************)
(* The render job.  The progress endpoint (POST /api/latest/lambda/        *)
(* progress) is stateless: it queries the executor and classifies the      *)
(* status.  The RenderJob it feeds is kept by the caller.  A fraction is   *)
(* counted in hundredths, a message is a sequence of its parts.            *)
(***************************************************************************)
StrUnknownRenderError == <<"Unknown error occurred during rendering">>
StrFailedToGetProgress == <<"Failed to get render progress: ">>
StrUnknownError == <<"Unknown error">>

\* the floor of a reported progress: 0.03
ProgressFloor == 3

\* renderProgress.errors: undefined, or a list of errors whose message may
\* be missing
ExecutorMessages == {<<"Composition not found">>, <<"Lambda timed out">>}
ExecutorErrorLists ==
  {Undefined, Str(<<>>), Str(<<[message |-> Undefined]>>)}
    \cup {Str(<<[message |-> Str(m)]>>) : m \in ExecutorMessages}
    \cup {Str(<<[message |-> Str(m)], [message |-> Str(n)]>>) :
            m, n \in ExecutorMessages}
\* renderProgress.overallProgress
OverallProgressValues == {0, 2, 3, 50, 100}
\* renderProgress.outputFile and outputSizeInBytes
OutputFiles == {<<"https://bucket/out.mp4">>}
OutputSizes == {1048576}

\* what getRenderProgress can resolve with
ExecutorStatuses ==
  [fatalErrorEncountered : BOOLEAN, done : BOOLEAN, errors : ExecutorErrorLists,
   overallProgress : OverallProgressValues, outputFile : OutputFiles,
   outputSizeInBytes : OutputSizes]
\* what getRenderProgress can throw: an Error with a message, or another value
ThrownValues ==
  {[isError |-> TRUE, message |-> <<"socket hang up">>],
   [isError |-> FALSE, message |-> <<>>]}

\* renderProgress.errors?.[0]?.message
FirstErrorMessage(errors) ==
  IF errors.def /\ Len(errors.s) > 0 THEN errors.s[1].message ELSE Undefined

\* the handler that reports progress whatever the status
ClassifyAsProgress(renderProgress) ==
  [type |-> "progress",
   progress |-> Max(ProgressFloor, renderProgress.overallProgress)]

\* the handler that tests done before fatalErrorEncountered
ClassifyDoneFirst(renderProgress) ==
  IF renderProgress.done
  THEN [type |-> "done", url |-> renderProgress.outputFile,
        size |-> renderProgress.outputSizeInBytes]
  ELSE IF renderProgress.fatalErrorEncountered
  THEN [type |-> "error",
        message |-> IF FirstErrorMessage(renderProgress.errors).def
                    THEN FirstErrorMessage(renderProgress.errors).s
                    ELSE StrUnknownRenderError]
  ELSE [type |-> "progress",
        progress |-> Max(ProgressFloor, renderProgress.overallProgress)]

\* the handler after getRenderProgress resolved: lines 66 to 84
Classify(renderProgress) ==
  IF renderProgress.fatalErrorEncountered
  THEN [type |-> "error",
        message |-> IF FirstErrorMessage(renderProgress.errors).def
                    THEN FirstErrorMessage(renderProgress.errors).s
                    ELSE StrUnknownRenderError]
  ELSE IF renderProgress.done
  THEN [type |-> "done", url |-> renderProgress.outputFile,
        size |-> renderProgress.outputSizeInBytes]
  ELSE [type |-> "progress",
        progress |-> Max(ProgressFloor, renderProgress.overallProgress)]

\* the catch of the handler: lines 85 to 90
ClassifyThrown(error) ==
  [type |-> "error",
   message |-> StrFailedToGetProgress \o
               (IF error.isError THEN error.message ELSE StrUnknownError)]

\* a job as the render request creates it
NewRenderJob ==
  [state |-> "submitted", progress |-> 0, resultUrl |-> <<>>,
   resultSizeBytes |-> <<>>, errorMessage |-> <<>>]

\* the caller that takes every response for a progress report
ApplyResponseAsProgress(job, response) ==
  [job EXCEPT !.state = "polling",
              !.progress = IF response.type = "progress" THEN response.progress ELSE 0,
              !.resultUrl = IF response.type = "done" THEN <<response.url>> ELSE <<>>]

\* the caller takes the response of a poll into the job, by its type
ApplyResponse(job, response) ==
  IF response.type = "error"
  THEN [job EXCEPT !.state = "error", !.errorMessage = <<response.message>>]
  ELSE IF response.type = "done"
  THEN [job EXCEPT !.state = "done", !.progress = 100,
                   !.resultUrl = <<response.url>>,
                   !.resultSizeBytes = <<response.size>>]
  ELSE [job EXCEPT !.state = "polling", !.progress = response.progress]

\* the render has ended at the executor, one way or the other
ExecutorEnded(status) == status.fatalErrorEncountered \/ status.done

RdInit ==
  /\ rdJob = NewRenderJob
  /\ rdExecutor \in {st \in ExecutorStatuses : ~ExecutorEnded(st)}
  /\ rdResponse = <<>>
  /\ rdLastQuery = "none"

\* the executor accepts the composition: {renderId, bucketName}
SubmitSucceeds ==
  /\ rdJob.state = "submitted"
  /\ rdJob' = [rdJob EXCEPT !.state = "polling"]
  /\ UNCHANGED <<rdExecutor, rdResponse, rdLastQuery>>
  /\ RdFrame

\* the executor rejects the composition
SubmitFails ==
  /\ rdJob.state = "submitted"
  /\ \E m \in ExecutorMessages :
       rdJob' = [rdJob EXCEPT !.state = "error", !.errorMessage = <<m>>]
  /\ UNCHANGED <<rdExecutor, rdResponse, rdLastQuery>>
  /\ RdFrame

\* the render goes on at the executor
ExecutorProgresses ==
  /\ ~ExecutorEnded(rdExecutor)
  /\ \E st \in ExecutorStatuses :
       /\ ~ExecutorEnded(st)
       /\ st.overallProgress > rdExecutor.overallProgress
       /\ st.errors = rdExecutor.errors
       /\ rdExecutor' = st
  /\ UNCHANGED <<rdJob, rdResponse, rdLastQuery>>
  /\ RdFrame

\* the render ends at the executor: completion, a fatal error, or both flags
ExecutorFinishes ==
  /\ ~ExecutorEnded(rdExecutor)
  /\ \E st \in ExecutorStatuses :
       /\ ExecutorEnded(st)
       /\ st.overallProgress >= rdExecutor.overallProgress
       /\ rdExecutor' = st
  /\ UNCHANGED <<rdJob, rdResponse, rdLastQuery>>
  /\ RdFrame

\* a poll in which getRenderProgress resolves
PollReturns ==
  /\ rdJob.state = "polling"
  /\ rdResponse' = <<Classify(rdExecutor)>>
  /\ rdJob' = ApplyResponse(rdJob, Classify(rdExecutor))
  /\ rdLastQuery' = "resolved"
  /\ UNCHANGED rdExecutor
  /\ RdFrame

\* a poll in which getRenderProgress throws
PollThrows ==
  /\ rdJob.state = "polling"
  /\ \E error \in ThrownValues :
       /\ rdResponse' = <<ClassifyThrown(error)>>
       /\ rdJob' = ApplyResponse(rdJob, ClassifyThrown(error))
  /\ rdLastQuery' = "threw"
  /\ UNCHANGED rdExecutor
  /\ RdFrame

RdNext ==
  \/ SubmitSucceeds \/ SubmitFails
  \/ ExecutorProgresses \/ ExecutorFinishes
  \/ PollReturns \/ PollThrows

(***************************************************************************)
(* The media proxy: GET /api/video-proxy?url=...  The handler is stateless;*)
(* pxFetched records the URLs it has fetched upstream.                     *)
(***************************************************************************)
\* the allow-list of the handler
allowedDomains ==
  {
    <<"i", "m", "a", "g", "e", "s", ".", "n", "y", "m", "i", "a", ".", "a",
      "i">>,
    <<"s", "a", "m", "p", "l", "e", "-", "v", "i", "d", "e", "o", "s", ".",
      "c", "o", "m">>,
    <<"c", "o", "m", "m", "o", "n", "d", "a", "t", "a", "s", "t", "o", "r",
      "a", "g", "e", ".", "g", "o", "o", "g", "l", "e", "a", "p", "i", "s",
      ".", "c", "o", "m">>,
    <<"w", "w", "w", ".", "l", "e", "a", "r", "n", "i", "n", "g", "c", "o",
      "n", "t", "a", "i", "n", "e", "r", ".", "c", "o", "m">>
  }

\* the values of the url parameter that are sent
ProxyTargets ==
  {
    <<"h", "t", "t", "p", "s", ":", "/", "/", "i", "m", "a", "g", "e", "s",
      ".", "n", "y", "m", "i", "a", ".", "a", "i", "/", "a">>,
    <<"h", "t", "t", "p", "s", ":", "/", "/", "s", "a", "m", "p", "l", "e",
      "-", "v", "i", "d", "e", "o", "s", ".", "c", "o", "m", "/", "a">>,
    <<"h", "t", "t", "p", "s", ":", "/", "/", "I", "M", "A", "G", "E", "S",
      ".", "n", "y", "m", "i", "a", ".", "a", "i", "/", "a">>,
    <<"h", "t", "t", "p", "s", ":", "/", "/", "i", "m", "a", "g", "e", "s",
      ".", "n", "y", "m", "i", "a", ".", "a", "i", ":", "8", "4", "4", "3",
      "/", "a">>,
    <<"h", "t", "t", "p", "s", ":", "/", "/", "e", "v", "i", "l", ".", "i",
      "o", "/", "a">>,
    <<"h", "t", "t", "p", "s", ":", "/", "/", "i", "m", "a", "g", "e", "s",
      ".", "n", "y", "m", "i", "a", ".", "a", "i", "@", "e", "v", "i", "l",
      ".", "i", "o", "/", "a">>,
    <<"h", "t", "t", "p", "s", ":", "/", "/", "i", "m", "a", "g", "e", "s",
      ".", "n", "y", "m", "i", "a", ".", "a", "i", ".", "e", "v", "i", "l",
      ".", "i", "o", "/", "a">>,
    <<"h", "t", "t", "p", "s", ":", "/", "/", "e", "v", "i", "l", ".", "i",
      "o", "/", "?", "i", "m", "a", "g", "e", "s", ".", "n", "y", "m", "i",
      "a", ".", "a", "i">>,
    <<"m", "o", "v", "i", "e", ".", "m", "p", "4">>
  }

\* the query of request.url: without the parameter, with an empty one, with
\* a target
ProxyQueries ==
  {<<>>, StrUrl \o <<"=">>}
    \cup {StrUrl \o <<"=">> \o EncodeURIComponent(t) : t \in ProxyTargets}

\* the statuses of an upstream response that is not ok
UpstreamErrorStatuses == {403, 404, 503}

\* ASCII lower case of a host name
ToLowerCase(s) ==
  [i \in 1..Len(s) |->
     IF CodeOfChar(s[i]) >= 65 /\ CodeOfChar(s[i]) <= 90
     THEN CharOfCode(CodeOfChar(s[i]) + 32) ELSE s[i]]

\* index of the last occurrence of the character c in s, 0 when there is none
LastIndexOf(s, c) ==
  IF \E i \in 1..Len(s) : s[i] = c
  THEN CHOOSE i \in 1..Len(s) : s[i] = c /\ \A j \in (i + 1)..Len(s) : s[j] # c
  ELSE 0

\* new URL(s).hostname of an http(s) URL: [ok, hostname]; ok is FALSE where
\* the constructor throws.  The authority ends at the first / ? or #, the
\* user info ends at its last @, the port starts at the : after the host.
UrlHostname(s) ==
  LET colon  == IndexOf(s, ":")
      scheme == SubSeq(s, 1, colon - 1)
      special == /\ colon > 1
                 /\ ToLowerCase(scheme) \in {StrHttp, StrHttp \o <<"s">>}
      rest   == SubSeq(s, colon + 1, Len(s))
      slashes == IF Len(rest) >= 2 /\ rest[1] = "/" /\ rest[2] = "/" THEN 2
                 ELSE IF Len(rest) >= 1 /\ rest[1] = "/" THEN 1 ELSE 0
      afterSl == SubSeq(rest, slashes + 1, Len(rest))
      authority == SubSeq(afterSl, 1, SpanUntil(afterSl, {"/", "?", "#"}))
      hostPort == SubSeq(authority, LastIndexOf(authority, "@") + 1, Len(authority))
      host   == SubSeq(hostPort, 1, SpanUntil(hostPort, {":"}))
  IN  IF ~special \/ host = <<>> THEN [ok |-> FALSE, hostname |-> <<>>]
      ELSE [ok |-> TRUE, hostname |-> ToLowerCase(host)]

\* the handler without the test of the host
ProxyDecisionAnyHost(videoUrl) ==
  IF ~IsTruthyString(videoUrl) THEN [status |-> 400, fetch |-> <<>>]
  ELSE IF ~UrlHostname(videoUrl.s).ok THEN [status |-> 500, fetch |-> <<>>]
  ELSE [status |-> 0, fetch |-> <<videoUrl.s>>]

\* the handler up to the upstream fetch: lines 5 to 26 and the catch.  It
\* answers with a status, or goes on to fetch videoUrl (status 0).
ProxyDecisionOf(videoUrl) ==
  IF ~IsTruthyString(videoUrl) THEN [status |-> 400, fetch |-> <<>>]
  ELSE IF ~UrlHostname(videoUrl.s).ok THEN [status |-> 500, fetch |-> <<>>]
  ELSE IF UrlHostname(videoUrl.s).hostname \notin allowedDomains
  THEN [status |-> 403, fetch |-> <<>>]
  ELSE [status |-> 0, fetch |-> <<videoUrl.s>>]

\* searchParams.get('url') of the request: a string, or null
VideoUrlOf(query) ==
  [def |-> SearchParamsGet(query, StrUrl).found,
   s |-> SearchParamsGet(query, StrUrl).val]

ProxyDecision(query) == ProxyDecisionOf(VideoUrlOf(query))

PxInit ==
  /\ pxRequest = <<>> /\ pxResponse = <<>>
  /\ pxFetched = {} /\ pxBefore = {} /\ pxPc = "idle"

\* a request that is answered without an upstream fetch
GetRejects ==
  /\ pxPc = "idle"
  /\ \E query \in ProxyQueries :
       /\ ProxyDecision(query).fetch = <<>>
       /\ pxRequest' = <<query>>
       /\ pxResponse' = <<ProxyDecision(query).status>>
  /\ pxBefore' = pxFetched
  /\ UNCHANGED <<pxFetched, pxPc>>
  /\ PxFrame

\* a request that passes the tests: the upstream fetch starts
GetFetches ==
  /\ pxPc = "idle"
  /\ \E query \in ProxyQueries :
       /\ ProxyDecision(query).fetch # <<>>
       /\ pxRequest' = <<query>>
       /\ pxFetched' = pxFetched \cup {ProxyDecision(query).fetch[1]}
  /\ pxBefore' = pxFetched
  /\ pxResponse' = <<>>
  /\ pxPc' = "fetching"
  /\ PxFrame

\* the upstream answers ok: the body is passed on
UpstreamOk ==
  /\ pxPc = "fetching"
  /\ pxResponse' = <<200>>
  /\ pxPc' = "idle"
  /\ UNCHANGED <<pxRequest, pxFetched, pxBefore>>
  /\ PxFrame

\* the upstream answers with an error status: the status is passed on
UpstreamNotOk ==
  /\ pxPc = "fetching"
  /\ \E status \in UpstreamErrorStatuses : pxResponse' = <<status>>
  /\ pxPc' = "idle"
  /\ UNCHANGED <<pxRequest, pxFetched, pxBefore>>
  /\ PxFrame

\* the upstream fetch or the reading of its body throws
UpstreamThrows ==
  /\ pxPc = "fetching"
  /\ pxResponse' = <<500>>
  /\ pxPc' = "idle"
  /\ UNCHANGED <<pxRequest, pxFetched, pxBefore>>
  /\ PxFrame

PxNext ==
  \/ GetRejects \/ GetFetches
  \/ UpstreamOk \/ UpstreamNotOk \/ UpstreamThrows

(***************************************************************************)
(* Calls of performExtraction that overlap.  The effect of lines 491-505   *)
(* calls performExtraction whenever overlayMeta changes; its cleanup       *)
(* clears a timer and leaves the call in flight alone.  Each call closes   *)
(* over the overlayMeta it began with and writes to the hook's frames and  *)
(* to the cache entry of the overlay id.                                   *)
(***************************************************************************)
MaxInFlight == 2

CxFrame ==
  /\ UNCHANGED <<urlVars, ovVars, tlVars, plVars, kfEnv, rdVars, pxVars, fnVars>>
  /\ UNCHANGED <<kfNow, kfRuns, kfPc, kfCall, kfOutcome>>

NewInFlight(duration, frameCount) ==
  [duration |-> duration, frameNumbers |-> FrameNumbers(frameCount, duration),
   extractedFrames |-> <<>>, pc |-> "extracting"]

CxInit ==
  /\ KfHookInit
  /\ kfContainer = {600} /\ kfDecodable = {}
  /\ kfInFlight = <<>>

\* the overlay is trimmed or stretched, whatever is in flight
OverlapResize ==
  /\ \E d \in KfDurations \ {kfOverlay.durationInFrames} :
       kfOverlay' = [kfOverlay EXCEPT !.durationInFrames = d]
  /\ UNCHANGED <<kfCache, kfPrevious, isLoading, frames, kfInFlight>>
  /\ CxFrame

\* lines 166-187: the effect calls performExtraction, which finds the overlay
\* changed and no fresh cache entry
OverlapStart ==
  /\ Len(kfInFlight) < MaxInFlight
  /\ kfPrevious # <<kfOverlay>>
  /\ ~IsCacheHit(kfCache, kfOverlay.id, kfOverlay.durationInFrames, kfNow)
  /\ kfPrevious' = <<kfOverlay>>
  /\ isLoading' = TRUE
  /\ frames' = <<>>
  /\ \E w \in kfContainer :
       kfInFlight' = Append(kfInFlight,
         NewInFlight(kfOverlay.durationInFrames, CalculateFrameCount(w, 1)))
  /\ UNCHANGED <<kfCache, kfOverlay>>
  /\ CxFrame

\* lines 396-405 in call c: the next frame is pushed and setFrames is called
\* with what the call has
OverlapFrame(c) ==
  /\ kfInFlight[c].pc = "extracting"
  /\ Len(kfInFlight[c].extractedFrames) < Len(kfInFlight[c].frameNumbers)
  /\ LET frameNumber ==
           kfInFlight[c].frameNumbers[Len(kfInFlight[c].extractedFrames) + 1]
         extractedFrames ==
           Append(kfInFlight[c].extractedFrames,
                  [frameNumber |-> frameNumber, dataUrl |-> FramePayload(frameNumber)])
     IN  /\ kfInFlight' = [kfInFlight EXCEPT ![c].extractedFrames = extractedFrames]
         /\ frames' = extractedFrames
  /\ UNCHANGED <<kfCache, kfOverlay, kfPrevious, isLoading>>
  /\ CxFrame

\* lines 462-480 in call c: updateKeyframes with the duration the call began
\* with, then setIsLoading(false)
OverlapCommit(c) ==
  /\ kfInFlight[c].pc = "extracting"
  /\ Len(kfInFlight[c].extractedFrames) = Len(kfInFlight[c].frameNumbers)
  /\ kfCache' = UpdateKeyframes(kfCache, kfOverlay.id,
       CacheEntryOf(kfInFlight[c].extractedFrames, kfInFlight[c].duration, kfNow))
  /\ isLoading' = FALSE
  /\ kfInFlight' = [kfInFlight EXCEPT ![c].pc = "done"]
  /\ UNCHANGED <<kfOverlay, kfPrevious, frames>>
  /\ CxFrame

CxNext ==
  \/ OverlapResize
  \/ OverlapStart
  \/ \E c \in DOMAIN kfInFlight : OverlapFrame(c)
  \/ \E c \in DOMAIN kfInFlight : OverlapCommit(c)

AllFinished ==
  /\ Len(kfInFlight) >= 2
  /\ \A c \in DOMAIN kfInFlight : kfInFlight[c].pc = "done"

\* C29: once two overlapping extractions of one overlay id have both
\* finished, the cache entry of the id and the visible frames are those of
\* the call that began later.
C29_LaterCallWins ==
  AllFinished =>
    LET later == kfInFlight[Len(kfInFlight)]
    IN  /\ frames = later.extractedFrames
        /\ kfCache[kfOverlay.id].durationInFrames = later.duration
        /\ kfCache[kfOverlay.id].previewFrames
             = SeqMap(FrameNumberOf, later.extractedFrames)


(***************************************************************************)
(* The specifications.                                                     *)
(***************************************************************************)

UrlIdle == urlIn = <<>> /\ urlOps = <<"idle">> /\ urlOut = <<>>
OvIdle == ovHeap = <<>> /\ ovInput = <<>> /\ ovResult = <<>> /\ ovOp = "idle"
TlIdle ==
  overlays = {} /\ durationInFrames = 0 /\ clock = 0 /\ addResult = "none"
PlIdle == plOverlays = {} /\ plRows = 0 /\ plDuration = 0 /\ plResult = <<>>
KfIdle ==
  /\ kfCache = <<>> /\ kfOverlay = [id |-> 0, durationInFrames |-> 0]
  /\ kfPrevious = <<>> /\ kfNow = 0 /\ kfRuns = 0 /\ isLoading = FALSE
  /\ frames = <<>> /\ kfPc = "off" /\ kfCall = NoCall
  /\ kfOutcome = "none" /\ kfContainer = {} /\ kfDecodable = {}

PxIdle == PxInit
FnIdle == fnDuration = 0 /\ fnWidth = 0 /\ fnNumbers = <<>>
CxIdle == kfInFlight = <<>>

RdIdle ==
  /\ rdJob = [state |-> "none"] /\ rdExecutor = [done |-> FALSE]
  /\ rdResponse = <<>> /\ rdLastQuery = "none"

\* the two URL conversions on the enumerated URLs
InitUrl == UrlInit /\ OvIdle /\ TlIdle /\ PlIdle /\ KfIdle /\ RdIdle /\ PxIdle /\ FnIdle
  /\ CxIdle
SpecUrl == InitUrl /\ [][UrlNext]_vars

\* the two overlay rewrites on the enumerated overlay lists
InitOverlays == OvInit /\ UrlIdle /\ TlIdle /\ PlIdle /\ KfIdle /\ RdIdle /\ PxIdle /\ FnIdle
  /\ CxIdle
SpecOverlays == InitOverlays /\ [][OvNext]_vars

\* the video panel and the overlay collection
InitTimeline == TlInit /\ UrlIdle /\ OvIdle /\ PlIdle /\ KfIdle /\ RdIdle /\ PxIdle /\ FnIdle
  /\ CxIdle
SpecTimeline == InitTimeline /\ [][TlNext]_vars

\* findNextAvailablePosition on the enumerated overlay sets
InitPlacement == PlInit /\ UrlIdle /\ OvIdle /\ TlIdle /\ KfIdle /\ RdIdle /\ PxIdle /\ FnIdle
  /\ CxIdle
SpecPlacement == InitPlacement /\ [][PlNext]_vars

(***************************************************************************)
(* The claims about the render job.                                        *)
(***************************************************************************)
RenderTransitions ==
  {<<"submitted", "polling">>, <<"submitted", "error">>,
   <<"polling", "polling">>, <<"polling", "done">>, <<"polling", "error">>}

\* the result fields belong to done and the message to error
RenderFieldsByState ==
  /\ rdJob.resultUrl # <<>> => rdJob.state = "done"
  /\ rdJob.resultSizeBytes # <<>> => rdJob.state = "done"
  /\ rdJob.errorMessage # <<>> => rdJob.state = "error"

\* the job changes only along the five transitions
RenderStep ==
  rdJob' # rdJob => <<rdJob.state, rdJob'.state>> \in RenderTransitions

\* C16: the render job moves only along submitted -> polling, submitted ->
\* error, polling -> polling, polling -> done and polling -> error; it never
\* returns to submitted, done and error are left by no step, resultUrl and
\* resultSizeBytes are set only in done and errorMessage only in error.
C16_RenderTransitions == [](RenderFieldsByState) /\ [][RenderStep]_vars

\* a job that went through polling to done with its result, after progress
C16_Witness ==
  /\ rdJob.state = "done" /\ rdJob.resultUrl # <<>>
  /\ rdJob.resultSizeBytes # <<>> /\ rdJob.errorMessage = <<>>
  /\ rdLastQuery = "resolved"

\* a poll in which the status query resolved; the executor does not move in it
PollResolvedStep ==
  rdLastQuery' = "resolved" /\ rdExecutor' = rdExecutor /\ rdVars' # rdVars

\* the first reported error has a message
HasFirstMessage(errors) ==
  /\ errors.def /\ Len(errors.s) > 0
  /\ errors.s[1].message.def

\* the answer to the status, as the order of classification has it
ClassifiedInOrder(status, response) ==
  /\ status.fatalErrorEncountered =>
       /\ response.type = "error"
       /\ HasFirstMessage(status.errors) =>
            response.message = status.errors.s[1].message.s
       /\ ~HasFirstMessage(status.errors) =>
            response.message = StrUnknownRenderError
  /\ ~status.fatalErrorEncountered /\ status.done =>
       /\ response.type = "done"
       /\ response.url = status.outputFile
       /\ response.size = status.outputSizeInBytes
  /\ ~status.fatalErrorEncountered /\ ~status.done =>
       response.type = "progress"

\* C17: whatever status the executor reports, a poll that got the status
\* answers type error when fatalErrorEncountered is set, done set or not,
\* with the first reported message or else the generic fallback; otherwise
\* type done with the output file and byte size when done is set; otherwise
\* type progress.
C17_ClassificationOrder ==
  [][PollResolvedStep => ClassifiedInOrder(rdExecutor, rdResponse'[1])]_vars

\* a poll of a render that is both failed and done answers error
C17_Witness ==
  /\ rdLastQuery = "resolved"
  /\ rdExecutor.fatalErrorEncountered /\ rdExecutor.done
  /\ rdResponse[1].type = "error"
  /\ rdResponse[1].message = StrUnknownRenderError

\* C18: every progress value a poll reports is at least 0.03 and below 1,
\* whatever overallProgress the executor reports while done is not set.
C18_ProgressRange ==
  rdResponse # <<>> /\ rdResponse[1].type = "progress" =>
    /\ rdResponse[1].progress >= ProgressFloor
    /\ rdResponse[1].progress < 100

\* a poll in which the status query threw
PollThrewStep ==
  rdLastQuery' = "threw" /\ rdExecutor' = rdExecutor /\ rdVars' # rdVars

\* the type that answers a fatal error of the executor
FatalErrorTypes ==
  {Classify(st).type : st \in {x \in ExecutorStatuses : x.fatalErrorEncountered}}

\* C19: a poll whose status query throws answers with a type that no fatal
\* error of the executor is answered with, and leaves the job polling, so
\* that a later poll can still report progress or done.
C19_TransportFailureDistinct ==
  [][PollThrewStep =>
       /\ rdResponse'[1].type \notin FatalErrorTypes
       /\ rdJob'.state = "polling"]_vars

\* C20: when the caller keeps polling and the executor comes to report
\* completion or a fatal error, the job reaches done or error; it does not
\* stay in polling for ever.
C20_RenderTerminates == <>(rdJob.state \in {"done", "error"})

\* the executor ended the render and a poll that got its status ended the job
C20_Witness ==
  /\ ExecutorEnded(rdExecutor)
  /\ rdLastQuery = "resolved" /\ rdResponse[1].type # "progress"
  /\ rdJob.state \in {"done", "error"}

(***************************************************************************)
(* The claims about the media proxy.                                       *)
(***************************************************************************)
\* the host of the url parameter is read and is not in the allow-list
HostNotAllowed(query) ==
  /\ IsTruthyString(VideoUrlOf(query))
  /\ UrlHostname(VideoUrlOf(query).s).ok
  /\ UrlHostname(VideoUrlOf(query).s).hostname \notin allowedDomains

\* C21: a GET without the url parameter is answered 400, one whose url has
\* a host out of the allow-list 403, neither with an upstream fetch; only
\* URLs whose host is in the allow-list are ever fetched upstream.
C21_ProxyAllowList ==
  /\ \A u \in pxFetched : UrlHostname(u).hostname \in allowedDomains
  /\ pxRequest # <<>> =>
       /\ ~VideoUrlOf(pxRequest[1]).def =>
            pxResponse = <<400>> /\ pxFetched = pxBefore
       /\ HostNotAllowed(pxRequest[1]) =>
            pxResponse = <<403>> /\ pxFetched = pxBefore
       /\ pxFetched # pxBefore =>
            /\ ~HostNotAllowed(pxRequest[1])
            /\ pxFetched = pxBefore \cup {VideoUrlOf(pxRequest[1]).s}

\* a request for a host out of the list was answered 403 after others were
\* fetched
C21_Witness ==
  /\ pxRequest # <<>> /\ HostNotAllowed(pxRequest[1])
  /\ pxResponse = <<403>> /\ pxFetched # {} /\ pxPc = "idle"

\* the overlay collection under every operation of the editor context
SpecCollection == InitTimeline /\ [][CollectionNext]_vars

\* the frame plan of an extraction as a function of its inputs
InitPlan ==
  FnInit /\ UrlIdle /\ OvIdle /\ TlIdle /\ PlIdle /\ KfIdle /\ RdIdle /\ PxIdle /\ CxIdle
SpecPlan == InitPlan /\ [][FnNext]_vars

\* the media proxy and its requests
InitProxy ==
  PxInit /\ UrlIdle /\ OvIdle /\ TlIdle /\ PlIdle /\ KfIdle /\ RdIdle /\ FnIdle /\ CxIdle
SpecProxy == InitProxy /\ [][PxNext]_vars

\* the render job, its executor and the polls of its progress
InitRender == RdInit /\ UrlIdle /\ OvIdle /\ TlIdle /\ PlIdle /\ KfIdle /\ PxIdle /\ FnIdle
  /\ CxIdle
SpecRender == InitRender /\ [][RdNext]_vars

\* the render job of a caller that keeps polling, with an executor that
\* comes to an end and a status query that comes to resolve
RenderFairness ==
  /\ WF_vars(SubmitSucceeds \/ SubmitFails)
  /\ WF_vars(ExecutorFinishes)
  /\ WF_vars(PollReturns)
SpecRenderLive == InitRender /\ [][RdNext]_vars /\ RenderFairness

\* the keyframe extraction of a video that fails at most offsets
InitCeiling == KfCeilingInit /\ UrlIdle /\ OvIdle /\ TlIdle /\ PlIdle /\ RdIdle /\ PxIdle /\ FnIdle
  /\ CxIdle
SpecCeiling == InitCeiling /\ [][KfCeilingNext]_vars

\* the calls of performExtraction of one overlay that is resized meanwhile
InitOverlap ==
  CxInit /\ UrlIdle /\ OvIdle /\ TlIdle /\ PlIdle /\ RdIdle /\ PxIdle /\ FnIdle
SpecOverlap == InitOverlap /\ [][CxNext]_vars

\* the keyframe extraction of one overlay
InitKeyframes == KfInit /\ UrlIdle /\ OvIdle /\ TlIdle /\ PlIdle /\ RdIdle /\ PxIdle /\ FnIdle
  /\ CxIdle
SpecKeyframes == InitKeyframes /\ [][KfNext]_vars

\* what the awaits of performExtraction have to settle them: the HEAD request
\* of the probe is a promise of fetch, the metadata wait has its 30 s timer
\* beside the two events, a frame extraction settles by itself, the backoff
\* and the loop go on by timers and continuations.  The wait of lines 303-356
\* for the video to load has the loadeddata and error events and no timer:
\* nothing in the code makes one of them come.
KfFairness ==
  /\ WF_vars(ProbeFails \/ ProbeSucceeds)
  /\ WF_vars(DimensionsFail \/ DimensionsKnown)
  /\ WF_vars(AttemptSucceeds \/ AttemptFails)
  /\ WF_vars(BatchContinues \/ ExtractionEnds)
SpecKeyframesLive == InitKeyframes /\ [][KfNext]_vars /\ KfFairness

\* the same with a video element that comes to fire loadeddata or error
\* after every load()
SpecKeyframesLoadLive ==
  InitKeyframes /\ [][KfNext]_vars /\ KfFairness /\ WF_vars(LoadFails \/ LoadSucceeds)

\* C30: a call of performExtraction that has set isLoading to true comes to
\* its end and sets isLoading to false again, whatever path it takes.
C30_LoadingEnds == isLoading ~> ~isLoading

====
